---- MODULE Spec2Model ----
(***************************************************************************)
(* Resume analyser: the matching / scoring engine of the repository and    *)
(* the request handlers that call it.  The repository holds several        *)
(* backend scripts that implement the same operations with different       *)
(* heuristics; each script that a property speaks about is modelled by its *)
(* own operators, named after the script's functions.                      *)
(*                                                                         *)
(* Text is modelled character by character: a string is a sequence of      *)
(* one-character strings, so that lower(), strip(), split(), substring     *)
(* tests and word-boundary matching do to the model's strings what they do *)
(* to Python's.  Percentages with one decimal are held as tenths           *)
(* (integers), float expressions as exact quotients num/den.               *)
(***************************************************************************)
EXTENDS Integers, Sequences, FiniteSets, TLC

VARIABLES
    \* ---- job / company ranker ----
    cand,         \* resume_skills handed to the ranker (list of strings)
    catalog,      \* the job catalog the ranker walks (list of postings)
    resumeText,   \* resume text of the file-id ranker (clean_backend)
    ranker,       \* which ranker produced `matches`
    matches,      \* the list the ranker returned
    \* ---- skill gap analysis ----
    gapResume,    \* resume text of the analysis
    gapJob,       \* job description of the analysis
    gapImpl,      \* which script analysed the pair
    gapOut,       \* the analysis it returned
    \* ---- text similarity ----
    simA,         \* the first text
    simB,         \* the second text
    simBackend,   \* the embedding model: "ok", "missing" or "raises"
    simEmb,       \* the vectors the embedding model gives the two texts
    simCache,     \* NLPEngine.cache.cache: processed text -> vector
    simImpl,      \* which script computed the similarity
    simOut,       \* similarity(a, b) and similarity(b, a) it returned
    \* ---- fit scorer ----
    scoreResume,  \* resume text of the analysis
    scoreJob,     \* job description of the analysis
    scoreSim,     \* the similarity the similarity step gave
    scoreImpl,    \* which script scored
    scoreOut,     \* the scores it returned, in tenths
    \* ---- one server process and its clients ----
    srvScript,    \* which script the process runs
    srvModel,     \* its embedding model: "ok", or "missing" (model = None)
    resume_data,  \* the module global the upload handler writes
    srvOwn,       \* per client: the upload the server last accepted from it
    srvReq,       \* the last analysis request: who asked, and for which job
    srvResp,      \* the response to it
    \* ---- a scorer run again on the same inputs ----
    scoreAgain,\* the scores the second run returned, in tenths
    \* ---- a required skill added to the resume text ----
    gapBefore, \* the match ratio before the last addition
    gapAdded,\* how many skills have been added
    \* ---- course recommendations ----
    recResume, \* resume text of the analysis
    recJob, \* job description of the analysis
    recImpl, \* which script recommended
    recOut,\* the list of courses it returned
    \* ---- two candidates ranked for one posting ----
    pairJob, \* the posting
    pairFull, \* resume_skills of the candidate who holds every required skill
    pairLess, \* the same list without one required skill
    pairImpl, \* which ranker ranked the two
    pairOut,\* the matches it returned for the one and for the other
    \* ---- concurrent embedding computations over one cache ----
    embCache, \* EmbeddingCache.cache of the shared engine: pairs <<key, embedding>>
    embDisk, \* embedding_cache.pkl: None (absent or unreadable) or Some(pairs)
    thread,\* each thread: its position in generate_embedding / generate_batch_embeddings and its locals
    \* ---- uploads to one server process ----
    upScript, \* the script the process runs
    uploaded_resume_text, \* backend_final: the text of the resume last stored
    uploaded_resume_data, \* the stored resume: None while the global is the empty dict, or Some(dict)
    upFile, \* the file of the last upload request
    upResp, \* the status of its response
    upBefore, \* the stored text and resume when the request arrived
    upLast,\* the file of the last upload answered with 200
    \* ---- The file-id variants: fixed_enhanced_backend, clean_backend, backend_main ----
    fidScript, \* the script the server process runs
    uploaded_files, \* the module global uploaded_files: file id -> entry
    fidIssued, \* file id -> the text extracted by the first upload that returned it
    fidReq, \* the last request
    fidResp,\* the response to it
    \* ---- UpskillingEngine._prioritize_skills, one loop iteration per step ----
    skill_prerequisites, \* the table self.skill_prerequisites: <<skill, prerequisites>> entries
    time_constraint, \* the argument time_constraint, None or an integer
    simulations, \* the argument simulations
    remaining_skills, \* the dict remaining_skills, in insertion order
    prioritized, \* the list prioritized
    prioPc,\* where the call is: filter, loop, done
    \* ---- NLPEngine.generate_batch_embeddings, one batch per step ----
    bTexts, \* the argument texts
    bBatchSize, \* the argument batch_size
    bUseCache, \* self.cache_embeddings
    bCacheAtCall, \* self.cache.cache when the call starts
    bCache, \* self.cache.cache
    bEmbeddings, \* the list embeddings
    bI, \* the loop variable i of the batches
    bFailed, \* the values of i whose encode call raised
    bPc \* where the call is: loop, done

rankVars == <<cand, catalog, resumeText, ranker, matches>>
gapVars == <<gapResume, gapJob, gapImpl, gapOut>>
simVars == <<simA, simB, simBackend, simEmb, simCache, simImpl, simOut>>
scoreVars == <<scoreResume, scoreJob, scoreSim, scoreImpl, scoreOut>>
srvVars == <<srvScript, srvModel, resume_data, srvOwn, srvReq, srvResp>>
rerunVars == <<scoreAgain>>
growVars == <<gapBefore, gapAdded>>
recVars == <<recResume, recJob, recImpl, recOut>>
pairVars == <<pairJob, pairFull, pairLess, pairImpl, pairOut>>
concVars == <<embCache, embDisk, thread>>
upVars == <<upScript, uploaded_resume_text, uploaded_resume_data, upFile, upResp, upBefore, upLast>>
fidVars == <<fidScript, uploaded_files, fidIssued, fidReq, fidResp>>
prioVars == <<skill_prerequisites, time_constraint, simulations, remaining_skills, prioritized, prioPc>>
batchVars == <<bTexts, bBatchSize, bUseCache, bCacheAtCall, bCache, bEmbeddings, bI, bFailed, bPc>>
vars == <<rankVars, gapVars, simVars, scoreVars, srvVars, rerunVars, growVars, recVars, pairVars, concVars, upVars, fidVars, prioVars, batchVars>>

\* what the actions of one part leave alone
notRank == <<gapVars, simVars, scoreVars, srvVars, rerunVars, growVars, recVars, pairVars, concVars, upVars, fidVars, prioVars, batchVars>>
notGap == <<rankVars, simVars, scoreVars, srvVars, rerunVars, growVars, recVars, pairVars, concVars, upVars, fidVars, prioVars, batchVars>>
notSim == <<rankVars, gapVars, scoreVars, srvVars, rerunVars, growVars, recVars, pairVars, concVars, upVars, fidVars, prioVars, batchVars>>
notScore == <<rankVars, gapVars, simVars, srvVars, rerunVars, growVars, recVars, pairVars, concVars, upVars, fidVars, prioVars, batchVars>>
notSrv == <<rankVars, gapVars, simVars, scoreVars, rerunVars, growVars, recVars, pairVars, concVars, upVars, fidVars, prioVars, batchVars>>
notRerun == <<rankVars, gapVars, simVars, scoreVars, srvVars, growVars, recVars, pairVars, concVars, upVars, fidVars, prioVars, batchVars>>
notGrow == <<rankVars, gapVars, simVars, scoreVars, srvVars, rerunVars, recVars, pairVars, concVars, upVars, fidVars, prioVars, batchVars>>
notGapGrow == <<rankVars, simVars, scoreVars, srvVars, rerunVars, recVars, pairVars, concVars, upVars, fidVars, prioVars, batchVars>>
notRec == <<rankVars, gapVars, simVars, scoreVars, srvVars, rerunVars, growVars, pairVars, concVars, upVars, fidVars, prioVars, batchVars>>
notPair == <<rankVars, gapVars, simVars, scoreVars, srvVars, rerunVars, growVars, recVars, concVars, upVars, fidVars, prioVars, batchVars>>
notConc == <<rankVars, gapVars, simVars, scoreVars, srvVars, rerunVars, growVars, recVars, pairVars, upVars, fidVars, prioVars, batchVars>>
notUp == <<rankVars, gapVars, simVars, scoreVars, srvVars, rerunVars, growVars, recVars, pairVars, concVars, fidVars, prioVars, batchVars>>
notFid == <<rankVars, gapVars, simVars, scoreVars, srvVars, rerunVars, growVars, recVars, pairVars, concVars, upVars, prioVars, batchVars>>
notPrio == <<rankVars, gapVars, simVars, scoreVars, srvVars, rerunVars, growVars, recVars, pairVars, concVars, upVars, fidVars, batchVars>>
notBatch == <<rankVars, gapVars, simVars, scoreVars, srvVars, rerunVars, growVars, recVars, pairVars, concVars, upVars, fidVars, prioVars>>

\* a part no call has been made to
RankIdle ==
    /\ cand = <<>>
    /\ catalog = <<>>
    /\ resumeText = <<>>
    /\ ranker = "none"
    /\ matches = <<>>
GapIdle ==
    /\ gapResume = <<>>
    /\ gapJob = <<>>
    /\ gapImpl = "none"
    /\ gapOut = <<>>
SimIdle ==
    /\ simA = <<>>
    /\ simB = <<>>
    /\ simBackend = "ok"
    /\ simEmb = <<>>
    /\ simCache = {}
    /\ simImpl = "none"
    /\ simOut = <<>>
ScoreIdle ==
    /\ scoreResume = <<>>
    /\ scoreJob = <<>>
    /\ scoreSim = <<0, 1>>
    /\ scoreImpl = "none"
    /\ scoreOut = <<>>
SrvIdle ==
    /\ srvScript = "none"
    /\ srvModel = "ok"
    /\ resume_data = {}
    /\ srvOwn = <<>>
    /\ srvReq = <<>>
    /\ srvResp = <<>>
RerunIdle ==
    /\ scoreAgain = <<>>
GrowIdle ==
    /\ gapBefore = <<>>
    /\ gapAdded = 0
RecIdle ==
    /\ recResume = <<>>
    /\ recJob = <<>>
    /\ recImpl = "none"
    /\ recOut = <<>>
PairIdle ==
    /\ pairJob = <<>>
    /\ pairFull = <<>>
    /\ pairLess = <<>>
    /\ pairImpl = "none"
    /\ pairOut = <<>>
ConcIdle ==
    /\ embCache = {}
    /\ embDisk = {}
    /\ thread = <<>>
UpIdle ==
    /\ upScript = "none"
    /\ uploaded_resume_text = <<>>
    /\ uploaded_resume_data = {}
    /\ upFile = {}
    /\ upResp = 0
    /\ upBefore = <<>>
    /\ upLast = {}
FidIdle ==
    /\ fidScript = "none"
    /\ uploaded_files = <<>>
    /\ fidIssued = <<>>
    /\ fidReq = {}
    /\ fidResp = {}
PrioIdle ==
    /\ skill_prerequisites = <<>>
    /\ time_constraint = {}
    /\ simulations = <<>>
    /\ remaining_skills = <<>>
    /\ prioritized = <<>>
    /\ prioPc = "none"
BatchIdle ==
    /\ bTexts = <<>>
    /\ bBatchSize = 0
    /\ bUseCache = FALSE
    /\ bCacheAtCall = {}
    /\ bCache = {}
    /\ bEmbeddings = <<>>
    /\ bI = 0
    /\ bFailed = {}
    /\ bPc = "none"

(***************************************************************************)
(* Bounds of the model.                                                    *)
(***************************************************************************)
MaxCatalog == 2      \* longest catalog drawn
MaxCand == 4         \* most skills in a candidate's list
MaxAdded == 2        \* most skills added to one resume text
MaxExtra == 5        \* most skills a candidate holds beyond the posting's
MaxRuns == 3         \* computations the threads start, all together

(***************************************************************************)
(* Strings.                                                                *)
(***************************************************************************)
UpperAlpha == <<"A","B","C","D","E","F","G","H","I","J","K","L","M",
                "N","O","P","Q","R","S","T","U","V","W","X","Y","Z">>
LowerAlpha == <<"a","b","c","d","e","f","g","h","i","j","k","l","m",
                "n","o","p","q","r","s","t","u","v","w","x","y","z">>
Digits == {"0","1","2","3","4","5","6","7","8","9"}

IsUpper(c) == c \in {UpperAlpha[i] : i \in 1..26}
IsLower(c) == c \in {LowerAlpha[i] : i \in 1..26}

\* str.lower() and str.upper() on the letters; every other character is
\* left as it is
LowerMap == [c \in {UpperAlpha[i] : i \in 1..26} |->
                LowerAlpha[CHOOSE i \in 1..26 : UpperAlpha[i] = c]]
UpperMap == [c \in {LowerAlpha[i] : i \in 1..26} |->
                UpperAlpha[CHOOSE i \in 1..26 : LowerAlpha[i] = c]]

\* str.lower(), one character
LowerChar(c) == IF c \in DOMAIN LowerMap THEN LowerMap[c] ELSE c

\* str.upper(), one character
UpperChar(c) == IF c \in DOMAIN UpperMap THEN UpperMap[c] ELSE c

\* str.lower()
lower(s) == [i \in 1..Len(s) |-> LowerChar(s[i])]

\* characters str.strip() and str.split() treat as whitespace, regex \s
IsSpace(c) == c \in {" ", "\t", "\n", "\r"}

\* regex \w
IsWordChar(c) == IsUpper(c) \/ IsLower(c) \/ c \in Digits \/ c = "_"

\* str.strip()
strip(s) ==
    IF \A i \in 1..Len(s) : IsSpace(s[i]) THEN <<>>
    ELSE LET first == CHOOSE i \in 1..Len(s) :
                         /\ ~IsSpace(s[i])
                         /\ \A j \in 1..(i-1) : IsSpace(s[j])
             last  == CHOOSE i \in 1..Len(s) :
                         /\ ~IsSpace(s[i])
                         /\ \A j \in (i+1)..Len(s) : IsSpace(s[j])
         IN SubSeq(s, first, last)

\* Python's `a in b` on two strings
IsSubstr(a, b) ==
    \E i \in 0..(Len(b) - Len(a)) : SubSeq(b, i + 1, i + Len(a)) = a

\* Python's `x in lst` on a list
InList(x, lst) == \E i \in 1..Len(lst) : lst[i] = x

\* [f(x) for x in lst] with f = lower
LowerAll(lst) == [i \in 1..Len(lst) |-> lower(lst[i])]

\* [x.lower().strip() for x in lst]
LowerStripAll(lst) == [i \in 1..Len(lst) |-> strip(lower(lst[i]))]

\* the elements of a list, as a set
Range(s) == {s[i] : i \in 1..Len(s)}

(***************************************************************************)
(* Arithmetic on quotients.                                                *)
(***************************************************************************)
\* floor(num/den), Python's int() of a non-negative float
Floor(num, den) == num \div den

\* round(num/den) to the nearest integer, ties to even (Python's round)
RoundHalfEven(num, den) ==
    LET q == num \div den
        r == num % den
    IN IF 2 * r < den THEN q
       ELSE IF 2 * r > den THEN q + 1
       ELSE IF q % 2 = 0 THEN q ELSE q + 1

Min(a, b) == IF a <= b THEN a ELSE b
Max(a, b) == IF a >= b THEN a ELSE b

(***************************************************************************)
(* list.sort(key=..., reverse=True) and sorted(..., reverse=True): a       *)
(* stable sort, elements with equal keys keep their original order.  keys  *)
(* is the list of sort keys of s, each key a tuple of integers compared    *)
(* lexicographically as Python compares tuples.                            *)
(***************************************************************************)
KeyGreater(a, b) ==
    \E i \in 1..Len(a) :
        /\ a[i] > b[i]
        /\ \A j \in 1..(i - 1) : a[j] = b[j]

\* a sort that is not stable: equal keys come out in reverse order
SortPos_unstable(keys, i) ==
    1 + Cardinality({j \in 1..Len(keys) :
                        \/ KeyGreater(keys[j], keys[i])
                        \/ (keys[j] = keys[i] /\ j > i)})

SortPos(keys, i) ==
    1 + Cardinality({j \in 1..Len(keys) :
                        \/ KeyGreater(keys[j], keys[i])
                        \/ (keys[j] = keys[i] /\ j < i)})

\* the sort left out: the list stays in catalog order
SortDescStable_unsorted(s, keys) == s

SortDescStable(s, keys) ==
    [p \in 1..Len(s) |-> s[CHOOSE i \in 1..Len(s) : SortPos(keys, i) = p]]

(***************************************************************************)
(* The skill names and texts the model draws its inputs from.              *)
(***************************************************************************)
sGo    == <<"G","o">>
sR     == <<"R">>
sSQL   == <<"S","Q","L">>
sMySQL == <<"M","y","S","Q","L">>
sAWS   == <<"A","W","S">>
sGit   == <<"G","i","t">>
sJava  == <<"J","a","v","a">>

\* descriptions of postings
dGoSql == <<"g","o"," ","s","q","l">>
dAws   == <<"a","w","s">>

\* resume texts
tGoSql  == <<"G","o"," ","S","Q","L">>
tSenior == <<"s","e","n","i","o","r"," ","A","W","S"," ","g","i","t">>
tEmpty  == <<>>

\* a dict key that is absent: the empty set; a present value v: {v}
None == {}
Some(v) == {v}
ValueOf(opt) == CHOOSE v \in opt : TRUE

\* One posting of a job catalog.  The scripts keep their catalogs in lists
\* of dicts (REAL_COMPANY_JOBS, COMPANY_JOBS, MOCK_JOBS) that differ in the
\* keys they carry; a posting of the model carries the keys of all of them
\* and each ranker reads the keys its script reads.  minimum_match_threshold
\* is None where the dict has no such key.
Posting(c, req, pref, thr, lvl, remote, size, desc) ==
    [company |-> c, required_skills |-> req, preferred_skills |-> pref,
     minimum_match_threshold |-> thr, experience_level |-> lvl,
     remote_friendly |-> remote, company_size |-> size, description |-> desc]

PostingPool ==
    { Posting("Alpha", <<sGo>>, <<sR, sMySQL, sGit>>, Some(50),
              "Mid-level", TRUE, "10,000+", dGoSql),
      Posting("Beta", <<sGo, sSQL, sAWS, sGit>>, <<>>, Some(40),
              "Senior (5+ years)", FALSE, "500+", dAws),
      Posting("Gamma", <<sSQL, sMySQL>>, <<sGo>>, None,
              "Mid-level", TRUE, "5,000+", dGoSql),
      Posting("Omega", <<>>, <<sGo>>, Some(30),
              "Entry-level", TRUE, "500+", dAws) }

\* catalogs: lists of distinct postings, at most MaxCatalog long
Catalogs ==
    UNION { { c \in [1..n -> PostingPool] :
                \A i, j \in 1..n : i # j => c[i] # c[j] } : n \in 0..MaxCatalog }

\* skills a candidate's list is drawn from, in this order; <<"g","o"," ">> is
\* "Go" as a user may have typed it
CandSkillOrder == <<sGo, <<"g","o"," ">>, sR, sSQL, sMySQL, sAWS, sGit>>

\* the list that holds the skills of CandSkillOrder at the positions in S
RECURSIVE PickFrom(_, _)
PickFrom(S, i) ==
    IF i > Len(CandSkillOrder) THEN <<>>
    ELSE IF i \in S THEN <<CandSkillOrder[i]>> \o PickFrom(S, i + 1)
    ELSE PickFrom(S, i + 1)

CandLists ==
    { PickFrom(S, 1) : S \in { T \in SUBSET (1..Len(CandSkillOrder)) :
                                  Cardinality(T) <= MaxCand } }

\* the posting of catalog cat that company c names
PostingOf(cat, c) == cat[CHOOSE i \in 1..Len(cat) : cat[i].company = c]

\* position of company c in catalog cat
CatalogIndex(cat, c) == CHOOSE i \in 1..Len(cat) : cat[i].company = c

(***************************************************************************)
(* fixed_enhanced_backend.py                                               *)
(***************************************************************************)
\* [x for x in lst if P(x)] for the membership tests of the matchers
RECURSIVE FilterIn(_, _, _)
FilterIn(lst, pool, keep) ==
    IF lst = <<>> THEN <<>>
    ELSE LET h == Head(lst)
             hit == InList(strip(lower(h)), pool)
         IN (IF hit = keep THEN <<h>> ELSE <<>>) \o FilterIn(Tail(lst), pool, keep)

\* calculate_exact_match_percentage: match_percentage is in tenths of a
\* percent (the function returns round(matched / total * 100, 1))
calculate_exact_match_percentage(resume_skills, job_skills) ==
    IF job_skills = <<>>
    THEN [matched_skills |-> <<>>, missing_skills |-> <<>>,
          extra_skills |-> resume_skills, match_percentage |-> 0,
          matched_count |-> 0, total_required |-> 0,
          extra_count |-> Len(resume_skills)]
    ELSE LET resume_skills_lower == LowerStripAll(resume_skills)
             job_skills_lower == LowerStripAll(job_skills)
             matched == FilterIn(job_skills, resume_skills_lower, TRUE)
             missing == FilterIn(job_skills, resume_skills_lower, FALSE)
             extra == FilterIn(resume_skills, job_skills_lower, FALSE)
         IN [matched_skills |-> matched, missing_skills |-> missing,
             extra_skills |-> extra,
             match_percentage |-> RoundHalfEven(Len(matched) * 1000, Len(job_skills)),
             matched_count |-> Len(matched),
             total_required |-> Len(job_skills),
             extra_count |-> Len(extra)]

\* job.get("minimum_match_threshold", 30)
DefaultThreshold == 30
ThresholdOf(job) ==
    IF job.minimum_match_threshold = None THEN DefaultThreshold
    ELSE ValueOf(job.minimum_match_threshold)

\* eligibility decided on the match of all the posting's skills instead of
\* the required ones
is_eligible_all_skills(resume_skills, job) ==
    calculate_exact_match_percentage(resume_skills,
        job.required_skills \o job.preferred_skills).match_percentage
        >= 10 * ThresholdOf(job)

\* is_eligible = required_match_percentage >= minimum_threshold
is_eligible(resume_skills, job) ==
    calculate_exact_match_percentage(resume_skills, job.required_skills).match_percentage
        >= 10 * ThresholdOf(job)

\* len([skill for skill in preferred_skills if skill in resume_skills])
CountExact(skills, resume_skills) ==
    Cardinality({i \in 1..Len(skills) : InList(skills[i], resume_skills)})

\* the JobMatch match_jobs_realtime builds for one eligible posting;
\* fit_score and selection_probability are in tenths (round(x, 1))
RealtimeMatch(resume_skills, job) ==
    LET required_skills == job.required_skills
        preferred_skills == job.preferred_skills
        required_match_analysis ==
            calculate_exact_match_percentage(resume_skills, required_skills)
        all_match_analysis ==
            calculate_exact_match_percentage(resume_skills,
                                             required_skills \o preferred_skills)
        required_matches == Len(required_match_analysis.matched_skills)
        preferred_matches == CountExact(preferred_skills, resume_skills)
        rn == IF required_skills = <<>> THEN 1 ELSE Len(required_skills)
        pn == IF preferred_skills = <<>> THEN 1 ELSE Len(preferred_skills)
        \* fit_score = required_score * 0.7 + preferred_score * 0.3, as
        \* fitNum / fitDen percent
        fitNum == 70 * required_matches * pn + 30 * preferred_matches * rn
        fitDen == rn * pn
        extra == Len(all_match_analysis.extra_skills)
        \* min(fit_score + extra * 1.5, 95), times 10
        prob10Num == Min(10 * fitNum + 15 * extra * fitDen, 950 * fitDen)
    IN [company |-> job.company,
        fit_score |-> RoundHalfEven(10 * fitNum, fitDen),
        selection_probability |-> RoundHalfEven(prob10Num, fitDen),
        skills_overlap |-> all_match_analysis.matched_skills,
        missing_skills |-> all_match_analysis.missing_skills,
        skill_match_percentage |-> all_match_analysis.match_percentage,
        exact_matches |-> all_match_analysis.matched_count,
        total_required |-> Len(required_skills \o preferred_skills),
        required_match_percentage |-> required_match_analysis.match_percentage,
        minimum_threshold |-> ThresholdOf(job)]

\* the loop of match_jobs_realtime: postings that are not eligible are
\* skipped (continue), the others appended in catalog order
RECURSIVE RealtimeLoop(_, _)
RealtimeLoop(resume_skills, jobs) ==
    IF jobs = <<>> THEN <<>>
    ELSE (IF is_eligible(resume_skills, Head(jobs))
          THEN <<RealtimeMatch(resume_skills, Head(jobs))>> ELSE <<>>)
         \o RealtimeLoop(resume_skills, Tail(jobs))

FitKeys(ms) == [i \in 1..Len(ms) |-> <<ms[i].fit_score>>]

\* match_jobs_realtime(resume_skills) over REAL_COMPANY_JOBS = jobs
match_jobs_realtime(resume_skills, jobs) ==
    LET ms == RealtimeLoop(resume_skills, jobs)
    IN SortDescStable(ms, FitKeys(ms))

(***************************************************************************)
(* backend_final.py and main.py: get_company_job_matches                   *)
(***************************************************************************)
\* any(skill.lower() in skill_lower for skill_lower in skills_lower)
AnyContains(skill, skills_lower) ==
    \E i \in 1..Len(skills_lower) : IsSubstr(lower(skill), skills_lower[i])

\* sum(1 for s in job_skills if any(s.lower() in skill_lower ...))
CountContained(job_skills, skills_lower) ==
    Cardinality({i \in 1..Len(job_skills) : AnyContains(job_skills[i], skills_lower)})

\* [s for s in job_skills if (not) any(s.lower() in skill_lower ...)]
RECURSIVE FilterContained(_, _, _)
FilterContained(job_skills, skills_lower, keep) ==
    IF job_skills = <<>> THEN <<>>
    ELSE (IF AnyContains(Head(job_skills), skills_lower) = keep
          THEN <<Head(job_skills)>> ELSE <<>>)
         \o FilterContained(Tail(job_skills), skills_lower, keep)

\* '5,000+' in job['company_size'] or '10,000+' in job['company_size'];
\* the postings of the model carry the sizes "500+", "5,000+", "10,000+"
LargeCompany(size) == size \in {"5,000+", "10,000+"}

\* the dict backend_final.get_company_job_matches appends for one posting
\* with required_matches > 0
BackendFinalMatch(skills_lower, job) ==
    LET required_matches == CountContained(job.required_skills, skills_lower)
        preferred_matches == CountContained(job.preferred_skills, skills_lower)
        total_required == Len(job.required_skills)
        total_preferred == Len(job.preferred_skills)
        pn == IF total_preferred > 0 THEN total_preferred ELSE 1
        missing_required_skills == total_required - required_matches
        \* base_fit_score = required_percentage * 0.8 + preferred_percentage * 0.2
        baseNum == 80 * required_matches * pn + 20 * preferred_matches * total_required
        baseDen == total_required * pn
        skill_coverage_bonus ==
            (IF missing_required_skills = 0 THEN 25
             ELSE IF 10 * required_matches >= 8 * total_required THEN 10 ELSE 0)
            + (IF 2 * preferred_matches >= total_preferred THEN 5 ELSE 0)
        experience_bonus ==
            IF job.experience_level \in {"Entry to Mid-level", "Entry-level"}
            THEN 5 ELSE 0
        remote_bonus == IF job.remote_friendly THEN 3 ELSE 0
        company_size_bonus == IF LargeCompany(job.company_size) THEN 3 ELSE 0
        bonus == skill_coverage_bonus + experience_bonus + remote_bonus
                 + company_size_bonus
        fit_score == Min(98, Floor(baseNum + bonus * baseDen, baseDen))
        selection_probability ==
            IF missing_required_skills = 0
            THEN Min(95, Floor(fit_score * 95, 100) + preferred_matches * 3)
            ELSE Min(85, Floor(fit_score * 75, 100) + required_matches * 2
                         + preferred_matches)
    IN [company |-> job.company,
        fit_score |-> fit_score,
        selection_probability |-> selection_probability,
        skills_overlap |-> FilterContained(job.required_skills \o job.preferred_skills,
                                           skills_lower, TRUE),
        missing_skills |-> FilterContained(job.required_skills, skills_lower, FALSE),
        required_matches |-> required_matches,
        total_required |-> total_required,
        preferred_matches |-> preferred_matches,
        total_preferred |-> total_preferred]

RECURSIVE BackendFinalLoop(_, _)
BackendFinalLoop(skills_lower, jobs) ==
    IF jobs = <<>> THEN <<>>
    ELSE (IF CountContained(Head(jobs).required_skills, skills_lower) > 0
          THEN <<BackendFinalMatch(skills_lower, Head(jobs))>> ELSE <<>>)
         \o BackendFinalLoop(skills_lower, Tail(jobs))

\* backend_final.get_company_job_matches(skills) over company_jobs = jobs:
\* matches.sort(key=lambda x: x['fit_score'], reverse=True)
backend_final_get_company_job_matches(skills, jobs) ==
    LET ms == BackendFinalLoop(LowerStripAll(skills), jobs)
    IN SortDescStable(ms, FitKeys(ms))

\* the dict main.get_company_job_matches appends for one posting with
\* required_matches > 0
MainMatch(skills_lower, job) ==
    LET required_matches == CountContained(job.required_skills, skills_lower)
        preferred_matches == CountContained(job.preferred_skills, skills_lower)
        total_required == Len(job.required_skills)
        total_preferred == Len(job.preferred_skills)
        pn == IF total_preferred > 0 THEN total_preferred ELSE 1
        baseNum == 80 * required_matches * pn + 20 * preferred_matches * total_required
        baseDen == total_required * pn
        fit_score == Min(98, Floor(baseNum, baseDen))
        selection_probability ==
            Min(95, Floor(fit_score * 85, 100) + required_matches * 2)
    IN [company |-> job.company,
        fit_score |-> fit_score,
        selection_probability |-> selection_probability,
        skills_overlap |-> FilterContained(job.required_skills \o job.preferred_skills,
                                           skills_lower, TRUE),
        missing_skills |-> FilterContained(job.required_skills, skills_lower, FALSE),
        required_matches |-> required_matches,
        total_required |-> total_required,
        preferred_matches |-> preferred_matches,
        total_preferred |-> total_preferred]

RECURSIVE MainLoop(_, _)
MainLoop(skills_lower, jobs) ==
    IF jobs = <<>> THEN <<>>
    ELSE (IF CountContained(Head(jobs).required_skills, skills_lower) > 0
          THEN <<MainMatch(skills_lower, Head(jobs))>> ELSE <<>>)
         \o MainLoop(skills_lower, Tail(jobs))

ProbKeys(ms) == [i \in 1..Len(ms) |-> <<ms[i].selection_probability>>]

\* main.get_company_job_matches(skills) over COMPANY_JOBS = jobs:
\* matches.sort(key=lambda x: x['selection_probability'], reverse=True)
main_get_company_job_matches(skills, jobs) ==
    LET ms == MainLoop(LowerStripAll(skills), jobs)
    IN SortDescStable(ms, ProbKeys(ms))

(***************************************************************************)
(* final_backend.py: get_job_matches                                       *)
(***************************************************************************)
\* the jobs dict of final_backend.get_job_matches names its skills in lower
\* case; a posting's required list is read in that spelling
FinalRequired(job) == LowerAll(job.required_skills)

FinalScore(skills_lower, job) ==
    Cardinality({i \in 1..Len(job.required_skills) :
                    InList(FinalRequired(job)[i], skills_lower)})

FinalFitCap == 92
FinalTop == 4

RECURSIVE FinalLoop(_, _)
FinalLoop(skills_lower, jobs) ==
    IF jobs = <<>> THEN <<>>
    ELSE (IF FinalScore(skills_lower, Head(jobs)) > 0
          THEN <<[company |-> Head(jobs).company,
                  fit_score |-> Min(FinalFitCap,
                                    50 + FinalScore(skills_lower, Head(jobs)) * 8)]>>
          ELSE <<>>)
         \o FinalLoop(skills_lower, Tail(jobs))

\* sorted(matches, key=lambda x: x['fit_score'], reverse=True)[:4]
get_job_matches(skills, jobs) ==
    LET ms == FinalLoop(LowerAll(skills), jobs)
        sorted == SortDescStable(ms, FitKeys(ms))
    IN SubSeq(sorted, 1, Min(FinalTop, Len(sorted)))

(***************************************************************************)
(* Regular-expression matching on model strings.                           *)
(***************************************************************************)
\* is position i of t a word character (positions outside t are not)
WordAt(t, i) == i >= 1 /\ i <= Len(t) /\ IsWordChar(t[i])

\* regex \b between positions i and i + 1 of t
BoundaryAfter(t, i) == WordAt(t, i) # WordAt(t, i + 1)

\* re.search(r'\b' + re.escape(p) + r'\b', t)
SearchWord(p, t) ==
    \E i \in 0..(Len(t) - Len(p)) :
        /\ SubSeq(t, i + 1, i + Len(p)) = p
        /\ BoundaryAfter(t, i)
        /\ BoundaryAfter(t, i + Len(p))

\* set(re.findall(r'\w+', t)): the maximal runs of word characters
WordSet(t) ==
    { SubSeq(t, i, j) : <<i, j>> \in
        { ij \in (1..Len(t)) \X (1..Len(t)) :
            /\ ij[1] <= ij[2]
            /\ \A k \in ij[1]..ij[2] : IsWordChar(t[k])
            /\ ~WordAt(t, ij[1] - 1)
            /\ ~WordAt(t, ij[2] + 1) } }

(***************************************************************************)
(* re.search for the patterns the scripts build.  A pattern is a list of   *)
(* elements <<kind, string>>; RegexRun carries the set of positions a      *)
(* match can have reached (position p: p characters consumed).             *)
(***************************************************************************)
Lit(str)  == <<"lit", str>>       \* the characters of str
Opt(str)  == <<"opt", str>>       \* (str)?
WsPlus    == <<"ws+", <<>> >>     \* \s+
WsStar    == <<"ws*", <<>> >>     \* \s*
DigPlus   == <<"d+", <<>> >>      \* \d+
AnyStar   == <<"any*", <<>> >>    \* .*
WordB     == <<"b", <<>> >>       \* \b
StartOrWs == <<"sow", <<>> >>     \* (?:^|\s)
EndOrSep  == <<"eow", <<>> >>     \* (?:\s|$|,|\.|;)

\* the positions one element can reach from position p of t
RegexFrom(e, t, p) ==
    CASE e[1] = "lit" -> IF /\ p + Len(e[2]) <= Len(t)
                            /\ SubSeq(t, p + 1, p + Len(e[2])) = e[2]
                         THEN {p + Len(e[2])} ELSE {}
      [] e[1] = "opt" -> {p} \cup (IF /\ p + Len(e[2]) <= Len(t)
                                      /\ SubSeq(t, p + 1, p + Len(e[2])) = e[2]
                                   THEN {p + Len(e[2])} ELSE {})
      [] e[1] = "ws+" -> { q \in (p + 1)..Len(t) : \A k \in (p + 1)..q : IsSpace(t[k]) }
      [] e[1] = "ws*" -> { q \in p..Len(t) : \A k \in (p + 1)..q : IsSpace(t[k]) }
      [] e[1] = "d+"  -> { q \in (p + 1)..Len(t) : \A k \in (p + 1)..q : t[k] \in Digits }
      [] e[1] = "any*" -> { q \in p..Len(t) : \A k \in (p + 1)..q : t[k] # "\n" }
      [] e[1] = "b"   -> IF BoundaryAfter(t, p) THEN {p} ELSE {}
      [] e[1] = "sow" -> (IF p = 0 THEN {p} ELSE {})
                          \cup (IF p < Len(t) /\ IsSpace(t[p + 1]) THEN {p + 1} ELSE {})
      [] e[1] = "eow" -> (IF p = Len(t) THEN {p} ELSE {})
                          \cup (IF /\ p < Len(t)
                                   /\ \/ IsSpace(t[p + 1])
                                      \/ t[p + 1] \in {",", ".", ";"}
                                THEN {p + 1} ELSE {})

RegexStep(e, t, P) == UNION { RegexFrom(e, t, p) : p \in P }

RECURSIVE RegexRun(_, _, _)
RegexRun(pat, t, P) ==
    IF pat = <<>> THEN P ELSE RegexRun(Tail(pat), t, RegexStep(Head(pat), t, P))

re_search(pat, t) == RegexRun(pat, t, 0..Len(t)) # {}

\* how many of the patterns re.search finds in t
CountMatching(patterns, t) ==
    Cardinality({ i \in 1..Len(patterns) : re_search(patterns[i], t) })

\* the concatenation of a list of lists
RECURSIVE Flatten(_)
Flatten(ls) == IF ls = <<>> THEN <<>> ELSE Head(ls) \o Flatten(Tail(ls))

\* the lists that hold the elements of the finite set S once each, in any
\* order: list(set(...)) does not fix the order
ListsOf(S) ==
    { l \in [1..Cardinality(S) -> S] : \A i, j \in 1..Cardinality(S) :
                                            i # j => l[i] # l[j] }

(***************************************************************************)
(* core/skill_analyzer.py.  The skill tables are cut down to the skills    *)
(* the model's texts can name, kept in the categories, subcategories and   *)
(* order of the source: 'Go' is listed under 'primary' and under 'systems' *)
(* of programming_languages.  None of these skills is a key of             *)
(* skill_synonyms, and all are single words.                               *)
(***************************************************************************)
\* self.skill_categories: <<main category, <<skills of its subcategories>> >>
SkillCategories ==
    << <<"programming_languages", <<sJava, sGo, sR, sSQL, sGo>> >>,
       <<"databases", <<sMySQL>> >>,
       <<"cloud_devops", <<sAWS>> >>,
       <<"tools_platforms", <<sGit>> >> >>

\* self.skill_synonyms.get(skill, [])
SkillSynonyms(skill) == <<>>

\* self.skill_importance.get(skill, 0.5), in hundredths
SkillImportance(skill) ==
    CASE skill = sJava -> 85
      [] skill = sSQL -> 90
      [] skill = sAWS -> 90
      [] skill = sGit -> 95
      [] OTHER -> 50

\* the words of the context patterns
ContextWords ==
    [experience |-> <<"e","x","p","e","r","i","e","n","c","e">>,
     w_with |-> <<"w","i","t","h">>,
     worked |-> <<"w","o","r","k","e","d">>,
     proficient |-> <<"p","r","o","f","i","c","i","e","n","t">>,
     w_in |-> <<"i","n">>,
     expert |-> <<"e","x","p","e","r","t">>,
     year |-> <<"y","e","a","r">>,
     w_s |-> <<"s">>,
     w_of |-> <<"o","f">>,
     w_for |-> <<"f","o","r">>]

\* context_patterns of _calculate_skill_confidence for skill_lower
ContextPatterns(skill_lower) ==
    << <<Lit(ContextWords.experience), WsPlus, Lit(ContextWords.w_with), WsPlus, Lit(skill_lower)>>,
       <<Lit(ContextWords.worked), WsPlus, Lit(ContextWords.w_with), WsPlus, Lit(skill_lower)>>,
       <<Lit(ContextWords.proficient), WsPlus, Lit(ContextWords.w_in), WsPlus, Lit(skill_lower)>>,
       <<Lit(ContextWords.expert), WsPlus, Lit(ContextWords.w_in), WsPlus, Lit(skill_lower)>>,
       <<DigPlus, WsPlus, Lit(ContextWords.year), Opt(ContextWords.w_s), WsPlus, Lit(ContextWords.w_of), WsPlus,
         Lit(skill_lower)>>,
       <<Lit(skill_lower), WsPlus, Lit(ContextWords.w_for), WsPlus, DigPlus, WsPlus,
         Lit(ContextWords.year), Opt(ContextWords.w_s)>> >>

\* the confidence before the context adjustment, in tenths
BaseConfidence(skill, skill_lower, synonyms, text) ==
    LET exact == IF IsSubstr(skill_lower, text) THEN 9 ELSE 0
        syn == IF \E i \in 1..Len(synonyms) : IsSubstr(lower(synonyms[i]), text)
               THEN Max(exact, 8) ELSE exact
    IN IF re_search(<<WordB, Lit(skill_lower), WordB>>, text) THEN Max(syn, 7) ELSE syn

\* _calculate_skill_confidence(skill, text), in tenths; text is lower case
calculate_skill_confidence(skill, text) ==
    Min(10, BaseConfidence(skill, lower(skill), SkillSynonyms(skill), text)
            + CountMatching(ContextPatterns(lower(skill)), text))

\* a detection without the confidence threshold
FoundIn_no_threshold(skills, text_lower) ==
    SelectSeq([i \in 1..Len(skills) |->
                  <<skills[i], calculate_skill_confidence(skills[i], text_lower)>>],
              LAMBDA pair : pair[2] >= 0)

\* the (skill, confidence) pairs one main category collects, in table order
FoundIn(skills, text_lower) ==
    SelectSeq([i \in 1..Len(skills) |->
                  <<skills[i], calculate_skill_confidence(skills[i], text_lower)>>],
              LAMBDA pair : pair[2] > 3)

SecondKeys(pairs) == [i \in 1..Len(pairs) |-> <<pairs[i][2]>>]

\* found_skills[category].sort(key=lambda x: x[1], reverse=True)
SortByConfidence(pairs) == SortDescStable(pairs, SecondKeys(pairs))

\* extract_skills_from_text(text): <<category, pairs sorted by confidence>>
\* for the categories that found a skill
sa_extract_skills_from_text(text) ==
    SelectSeq([c \in 1..Len(SkillCategories) |->
                  <<SkillCategories[c][1],
                    SortByConfidence(FoundIn(SkillCategories[c][2], lower(text)))>>],
              LAMBDA entry : entry[2] # <<>>)

\* the skill names of an extraction result, category after category
SAFlat(extracted) ==
    Flatten([c \in 1..Len(extracted) |->
                [i \in 1..Len(extracted[c][2]) |-> extracted[c][2][i][1]]])

\* the words of the importance patterns
ImportanceWords ==
    [require |-> <<"r","e","q","u","i","r","e">>,
     w_d |-> <<"d">>,
     colon |-> <<":">>,
     must |-> <<"m","u","s","t">>,
     have |-> <<"h","a","v","e">>,
     preferre |-> <<"p","r","e","f","e","r","r","e">>,
     nice |-> <<"n","i","c","e">>,
     w_to |-> <<"t","o">>,
     essential |-> <<"e","s","s","e","n","t","i","a","l">>,
     critical |-> <<"c","r","i","t","i","c","a","l">>,
     plus |-> <<"+">>,
     year |-> <<"y","e","a","r">>,
     w_s |-> <<"s">>]

\* importance_indicators of _calculate_skill_importance, with the
\* importance_multipliers in tenths
ImportanceIndicators(skill_lower) ==
    << [multiplier |-> 12, patterns |->
          << <<Lit(ImportanceWords.require), Opt(ImportanceWords.w_d), WsStar, Opt(ImportanceWords.colon), WsStar, AnyStar,
               Lit(skill_lower)>>,
             <<Lit(ImportanceWords.must), WsPlus, Lit(ImportanceWords.have), AnyStar, Lit(skill_lower)>> >>],
       [multiplier |-> 9, patterns |->
          << <<Lit(ImportanceWords.preferre), Opt(ImportanceWords.w_d), WsStar, Opt(ImportanceWords.colon), WsStar, AnyStar,
               Lit(skill_lower)>>,
             <<Lit(ImportanceWords.nice), WsPlus, Lit(ImportanceWords.w_to), WsPlus, Lit(ImportanceWords.have), AnyStar,
               Lit(skill_lower)>> >>],
       [multiplier |-> 13, patterns |->
          << <<Lit(ImportanceWords.essential), AnyStar, Lit(skill_lower)>>,
             <<Lit(ImportanceWords.critical), AnyStar, Lit(skill_lower)>> >>],
       [multiplier |-> 11, patterns |->
          << <<DigPlus, Opt(ImportanceWords.plus), WsPlus, Lit(ImportanceWords.year), Opt(ImportanceWords.w_s), WsPlus, AnyStar,
               Lit(skill_lower)>>,
             <<Lit(skill_lower), AnyStar, DigPlus, Opt(ImportanceWords.plus), WsPlus, Lit(ImportanceWords.year),
               Opt(ImportanceWords.w_s)>> >>] >>

\* importances are held as integers over ImportanceScale
ImportanceScale == 1000000

\* the multiplier of one indicator type: applied when one of its patterns
\* is found, in tenths
Multiplier(indicator, job_description) ==
    IF CountMatching(indicator.patterns, job_description) > 0
    THEN indicator.multiplier ELSE 10

ImportanceProduct(base, ind, job_description) ==
    base * Multiplier(ind[1], job_description) * Multiplier(ind[2], job_description)
         * Multiplier(ind[3], job_description) * Multiplier(ind[4], job_description)

\* _calculate_skill_importance(skill, job_description), over ImportanceScale
calculate_skill_importance(skill, job_description) ==
    Min(ImportanceScale,
        ImportanceProduct(SkillImportance(skill), ImportanceIndicators(lower(skill)),
                          job_description))

\* the (skill, confidence) pairs of one category with the importance in the
\* place of the confidence
AdjustedSkills(skills, job_desc_lower) ==
    [i \in 1..Len(skills) |->
        <<skills[i][1], calculate_skill_importance(skills[i][1], job_desc_lower)>>]

AdjustAll(required_skills, job_desc_lower) ==
    [c \in 1..Len(required_skills) |->
        <<required_skills[c][1], AdjustedSkills(required_skills[c][2], job_desc_lower)>>]

\* extract_job_requirements(job_description)
extract_job_requirements(job_description) ==
    AdjustAll(sa_extract_skills_from_text(job_description), lower(job_description))

RECURSIVE SumSeq(_)
SumSeq(q) == IF q = <<>> THEN 0 ELSE Head(q) + SumSeq(Tail(q))

Firsts(pairs) == [i \in 1..Len(pairs) |-> pairs[i][1]]
Seconds(pairs) == [i \in 1..Len(pairs) |-> pairs[i][2]]

\* the pairs of a per-category result, category after category
AllPairs(by_category) ==
    Flatten([c \in 1..Len(by_category) |-> by_category[c][2]])

\* is_present of analyze_skill_gaps
IsPresent(skill, synonyms, resume_skills_flat) ==
    \/ lower(skill) \in resume_skills_flat
    \/ \E k \in 1..Len(synonyms) : lower(synonyms[k]) \in resume_skills_flat

\* the share of the missing importance instead of the matched one
OverallMatchScore_missing_share(matched_importance, total_importance) ==
    IF total_importance > 0
    THEN <<total_importance - matched_importance, total_importance>>
    ELSE <<0, 1>>

\* overall_match_score, as <<numerator, denominator>>
OverallMatchScore(matched_importance, total_importance) ==
    IF total_importance > 0 THEN <<matched_importance, total_importance>>
    ELSE <<0, 1>>

\* the SkillGapAnalysis built from the matched and the missing SkillMatch
\* entries, each a <<skill, importance>> pair
SkillGapAnalysis(required, matched_skills, missing_skills) ==
    [job_skills |-> Firsts(required),
     matched_skills |-> Firsts(matched_skills),
     missing_skills |-> Firsts(missing_skills),
     importances |-> Seconds(required),
     overall_match_score |->
         OverallMatchScore(SumSeq(Seconds(matched_skills)), SumSeq(Seconds(required))),
     critical_gaps |->
         Firsts(SelectSeq(missing_skills, LAMBDA r : 10 * r[2] > 7 * ImportanceScale))]

\* the loop of analyze_skill_gaps over the required skills
SplitRequired(required, resume_skills_flat) ==
    SkillGapAnalysis(required,
        SelectSeq(required,
                  LAMBDA r : IsPresent(r[1], SkillSynonyms(r[1]), resume_skills_flat)),
        SelectSeq(required,
                  LAMBDA r : ~IsPresent(r[1], SkillSynonyms(r[1]), resume_skills_flat)))

\* analyze_skill_gaps(resume_text, job_description, resume_skills)
analyze_skill_gaps(resume_text, job_description, resume_skills) ==
    SplitRequired(AllPairs(extract_job_requirements(job_description)),
        { lower(sk) : sk \in Range(SAFlat(sa_extract_skills_from_text(resume_text))) }
          \cup { lower(sk) : sk \in Range(resume_skills) })

(***************************************************************************)
(* fixed_enhanced_backend.py: extract_skills_enhanced.                     *)
(* COMPREHENSIVE_SKILLS_DB is cut down to the skills the model's texts can *)
(* name, kept in the categories and order of the source: 'Java' is listed  *)
(* under 'Programming Languages' and under 'Mobile Development'.           *)
(***************************************************************************)
COMPREHENSIVE_SKILLS_DB ==
    << <<"Programming Languages", <<sJava, sGo, sR>> >>,
       <<"Databases", <<sSQL, sMySQL>> >>,
       <<"Cloud & DevOps", <<sAWS>> >>,
       <<"Mobile Development", <<sJava>> >>,
       <<"Tools & Frameworks", <<sGit>> >> >>

\* re.sub(r'[^\w\s+#.-]', ' ', text)
KeepChar(c) == IsWordChar(c) \/ IsSpace(c) \/ c \in {"+", "#", ".", "-"}

\* re.sub(r'\s+', ' ', text)
RECURSIVE CollapseWs(_)
CollapseWs(t) ==
    IF t = <<>> THEN <<>>
    ELSE IF IsSpace(Head(t))
         THEN IF Len(t) > 1 /\ IsSpace(t[2]) THEN CollapseWs(Tail(t))
              ELSE <<" ">> \o CollapseWs(Tail(t))
         ELSE <<Head(t)>> \o CollapseWs(Tail(t))

\* text_normalized of extract_skills_enhanced
Normalize(text_lower) ==
    strip(CollapseWs([i \in 1..Len(text_lower) |->
                         IF KeepChar(text_lower[i]) THEN text_lower[i] ELSE " "]))

\* the patterns extract_skills_enhanced tries for a skill (none of the
\* model's skills has one of the characters . + # -)
EnhancedPatterns(skill_lower) ==
    << <<WordB, Lit(skill_lower), WordB>>,
       <<StartOrWs, Lit(skill_lower), EndOrSep>> >>
    \o (IF Len(skill_lower) = 1
        THEN << <<Lit(skill_lower), WsPlus, Lit(<<"p","r","o","g","r","a","m","m","i","n","g">>)>>,
                <<Lit(skill_lower), WsPlus, Lit(<<"l","a","n","g","u","a","g","e">>)>> >>
        ELSE <<>>)

EnhancedFound(skill, text_normalized) ==
    CountMatching(EnhancedPatterns(lower(skill)), text_normalized) > 0

\* found_skills of one category: a skill is appended unless the category's
\* list already holds it
RECURSIVE EnhancedCategory(_, _, _)
EnhancedCategory(skills_list, text_normalized, found_skills) ==
    IF skills_list = <<>> THEN found_skills
    ELSE EnhancedCategory(Tail(skills_list), text_normalized,
            IF /\ EnhancedFound(Head(skills_list), text_normalized)
               /\ ~InList(Head(skills_list), found_skills)
            THEN Append(found_skills, Head(skills_list))
            ELSE found_skills)

\* extract_skills_enhanced(text)[0], the dict categorized_skills: <<category,
\* found_skills>> for the categories that found a skill
categorized_skills(text) ==
    IF text = <<>> \/ strip(text) = <<>> THEN <<>>
    ELSE SelectSeq([c \in 1..Len(COMPREHENSIVE_SKILLS_DB) |->
                      <<COMPREHENSIVE_SKILLS_DB[c][1],
                        EnhancedCategory(COMPREHENSIVE_SKILLS_DB[c][2],
                                         Normalize(lower(text)), <<>>)>>],
                   LAMBDA entry : entry[2] # <<>>)

\* extract_skills_enhanced(text)[1], the list all_found_skills
extract_skills_enhanced(text) ==
    IF text = <<>> \/ strip(text) = <<>> THEN <<>>
    ELSE LET text_normalized == Normalize(lower(text))
         IN Flatten([c \in 1..Len(COMPREHENSIVE_SKILLS_DB) |->
                       EnhancedCategory(COMPREHENSIVE_SKILLS_DB[c][2],
                                        text_normalized, <<>>)])

(***************************************************************************)
(* backend_final.py: extract_skills_from_text and analyze_skill_match.     *)
(* skill_keywords is cut down to the skills the model's texts can name.    *)
(***************************************************************************)
skill_keywords ==
    <<lower(sJava), lower(sGo), lower(sR), lower(sSQL), lower(sMySQL),
      lower(sAWS), lower(sGit)>>

\* str.title(): a letter that follows a letter is lowered, any other letter
\* is raised
title(str) ==
    [i \in 1..Len(str) |->
        IF i > 1 /\ (IsUpper(str[i - 1]) \/ IsLower(str[i - 1]))
        THEN LowerChar(str[i]) ELSE UpperChar(str[i])]

\* the set that list(set(found_skills)) is built from
backend_final_found_skills(text) ==
    { title(skill_keywords[i]) :
        i \in { k \in 1..Len(skill_keywords) : IsSubstr(skill_keywords[k], lower(text)) } }

\* analyze_skill_match(resume_skills, job_description), job_skills being the
\* list extract_skills_from_text(job_description) returned
analyze_skill_match(resume_skills, job_skills) ==
    LET resume_skills_lower == LowerAll(resume_skills)
        hit(job_skill) == InList(lower(job_skill), resume_skills_lower)
        matching_skills == SelectSeq(job_skills, LAMBDA js : hit(js))
    IN [matching_skills |-> matching_skills,
        missing_skills |-> SelectSeq(job_skills, LAMBDA js : ~hit(js)),
        skill_match_ratio |->
            IF Len(job_skills) > 0 THEN <<Len(matching_skills), Len(job_skills)>>
            ELSE <<1, 2>>]

(***************************************************************************)
(* clean_backend.py                                                        *)
(***************************************************************************)
\* calculate_similarity_simple(text1, text2) as the quotient <<num, den>>;
\* <<0, 1>> is the 0.0 returned for an empty union
calculate_similarity_simple(text1, text2) ==
    LET words1 == WordSet(lower(text1))
        words2 == WordSet(lower(text2))
        intersection == words1 \cap words2
        union == words1 \cup words2
    IN IF Cardinality(union) = 0 THEN <<0, 1>>
       ELSE <<Cardinality(intersection), Cardinality(union)>>

\* skills_database of extract_skills_simple, cut down to the skills the
\* model's texts can name (none of them has an entry in skill_variations)
CleanSkillsDatabase == <<sGo, sR, sSQL, sMySQL, sAWS, sGit>>

\* extract_skills_simple(text): list(set(found_skills)), as a set
extract_skills_simple(text) ==
    { CleanSkillsDatabase[i] : i \in
        { k \in 1..Len(CleanSkillsDatabase) :
            SearchWord(lower(CleanSkillsDatabase[k]), lower(text)) } }

\* experience_keywords of match_jobs: <<keyword, weight>>
ExperienceKeywords ==
    { << <<"s","e","n","i","o","r">>, 3 >>,
      << <<"l","e","a","d">>, 4 >>,
      << <<"m","a","n","a","g","e","r">>, 5 >>,
      << <<"a","r","c","h","i","t","e","c","t">>, 6 >>,
      << <<"d","i","r","e","c","t","o","r">>, 7 >>,
      << <<"y","e","a","r","s">>, 1 >>,
      << <<"e","x","p","e","r","i","e","n","c","e">>, 1 >>,
      << <<"w","o","r","k","e","d">>, 1 >>,
      << <<"d","e","v","e","l","o","p","e","d">>, 1 >> }

RECURSIVE SumWeights(_)
SumWeights(S) ==
    IF S = {} THEN 0
    ELSE LET x == CHOOSE y \in S : TRUE IN x[2] + SumWeights(S \ {x})

\* resume_experience_score of match_jobs
resume_experience_score(resume_text) ==
    SumWeights({kw \in ExperienceKeywords : IsSubstr(kw[1], lower(resume_text))})

\* job_exp_level of match_jobs, in tenths; the tests "senior" in / "5+" in /
\* "mid" in / "junior" in experience_level.lower() on the levels the
\* postings of the model carry
job_exp_level(level) ==
    CASE level = "Senior (5+ years)" -> 8
      [] level = "Mid-level" -> 6
      [] level = "Entry to Mid-level" -> 6
      [] level = "Junior" -> 3
      [] OTHER -> 5

AbsDiff(a, b) == IF a >= b THEN a - b ELSE b - a

\* the JobMatch match_jobs builds for one posting; fit_score and
\* selection_probability are in tenths (round(x, 1))
CleanMatch(resume_text, job) ==
    LET resume_skills == extract_skills_simple(resume_text)
        required == Range(job.required_skills)
        preferred == Range(job.preferred_skills)
        matched_required == resume_skills \cap required
        matched_preferred == resume_skills \cap preferred
        missing_required == required \ resume_skills
        missing_preferred == preferred \ resume_skills
        nr == IF job.required_skills = <<>> THEN 1 ELSE Len(job.required_skills)
        np == IF job.preferred_skills = <<>> THEN 1 ELSE Len(job.preferred_skills)
        mr == IF job.required_skills = <<>> THEN 0 ELSE Cardinality(matched_required)
        mp == IF job.preferred_skills = <<>> THEN 0 ELSE Cardinality(matched_preferred)
        sim == calculate_similarity_simple(resume_text, job.description)
        \* resume_experience_level = min(score / 10, 1.0), in tenths
        rel == Min(resume_experience_score(resume_text), 10)
        \* experience_match = 1 - abs(resume level - job level), in tenths
        exp10 == 10 - AbsDiff(rel, job_exp_level(job.experience_level))
        den == nr * np * sim[2]
        \* fit_score * 10 = 400 r + 200 p + 250 sim + 150 experience_match
        fitNum == 400 * mr * np * sim[2] + 200 * mp * nr * sim[2]
                  + 250 * sim[1] * nr * np + 15 * exp10 * den
        bonus == IF Cardinality(missing_required) = 0 THEN 15
                 ELSE IF Cardinality(missing_required) <= 2 THEN 10 ELSE 0
        \* min(fit_score * 0.8 + bonus, 95) * 10, over 10 * den
        probNum == Min(8 * fitNum + 100 * bonus * den, 9500 * den)
    IN [company |-> job.company,
        fit_score |-> RoundHalfEven(fitNum, den),
        selection_probability |-> RoundHalfEven(probNum, 10 * den),
        skills_overlap |-> matched_required \cup matched_preferred,
        missing_required |-> missing_required,
        missing_preferred |-> missing_preferred]

FitProbKeys(ms) ==
    [i \in 1..Len(ms) |-> <<ms[i].fit_score, ms[i].selection_probability>>]

\* match_jobs over MOCK_JOBS = jobs, for the resume text stored under the
\* file id: matches.sort(key=lambda x: (x.fit_score,
\* x.selection_probability), reverse=True)
match_jobs(resume_text, jobs) ==
    LET ms == [i \in 1..Len(jobs) |-> CleanMatch(resume_text, jobs[i])]
    IN SortDescStable(ms, FitProbKeys(ms))

(***************************************************************************)
(* Text similarity.  A similarity is a fraction <<numerator, denominator>> *)
(* with a positive denominator.  The embedding model is outside the        *)
(* repository: it is a function from texts to vectors, here vectors with   *)
(* integer coordinates and an integer length, so that a cosine is a        *)
(* fraction; the all-zero vector is what np.zeros gives.                   *)
(***************************************************************************)
EmbVectors == {<<5, 0>>, <<3, 4>>, <<-4, 3>>}
ZeroVector == <<0, 0>>

\* the Euclidean length of a vector of the model
Norm(v) ==
    CHOOSE n \in 0..(v[1] * v[1] + v[2] * v[2]) : n * n = v[1] * v[1] + v[2] * v[2]

\* sklearn's cosine_similarity of two vectors: 0 when one of them is zero
cosine_similarity(u, v) ==
    IF u = ZeroVector \/ v = ZeroVector THEN <<0, 1>>
    ELSE <<u[1] * v[1] + u[2] * v[2], Norm(u) * Norm(v)>>

\* the whitespace-separated pieces of t, as a set
TokensOf(t) ==
    { SubSeq(t, p[1], p[2]) :
        p \in { q \in (1..Len(t)) \X (1..Len(t)) :
                  /\ q[1] <= q[2]
                  /\ \A k \in q[1]..q[2] : ~IsSpace(t[k])
                  /\ q[1] = 1 \/ IsSpace(t[q[1] - 1])
                  /\ q[2] = Len(t) \/ IsSpace(t[q[2] + 1]) } }

\* set(text.lower().split())
SplitWords(text) == TokensOf(lower(text))

\* final_backend: min(overlap / max(len(job_words), 1), 1.0)
FinalOverlap(resume_words, job_words) ==
    IF Cardinality(resume_words \cap job_words) > Max(Cardinality(job_words), 1)
    THEN <<1, 1>>
    ELSE <<Cardinality(resume_words \cap job_words), Max(Cardinality(job_words), 1)>>

\* working_backend: min(overlap / len(job_words), 1.0) if job_words else 0.5
WorkingOverlap(resume_words, job_words) ==
    IF Cardinality(job_words) > 0
    THEN IF Cardinality(resume_words \cap job_words) > Cardinality(job_words)
         THEN <<1, 1>>
         ELSE <<Cardinality(resume_words \cap job_words), Cardinality(job_words)>>
    ELSE <<1, 2>>

\* the similarity step of final_backend.calculate_fit_score
final_similarity(resume_text, job_desc, backend, emb) ==
    IF backend # "missing"
    THEN IF backend = "raises" THEN <<1, 2>>
         ELSE cosine_similarity(emb[resume_text], emb[job_desc])
    ELSE FinalOverlap(SplitWords(resume_text), SplitWords(job_desc))

\* the similarity step of working_backend.calculate_fit_score
working_similarity(resume_text, job_desc, backend, emb) ==
    IF backend # "missing"
    THEN IF backend = "raises" THEN <<1, 2>>
         ELSE cosine_similarity(emb[resume_text], emb[job_desc])
    ELSE WorkingOverlap(SplitWords(resume_text), SplitWords(job_desc))

\* backend_final.calculate_similarity: encode of a model that is None raises
calculate_similarity(text1, text2, backend, emb) ==
    IF backend = "ok" THEN cosine_similarity(emb[text1], emb[text2])
    ELSE <<0, 1>>

\* NLPEngine.preprocess_text
preprocess_text(text) ==
    IF text = <<>> THEN <<>>
    ELSE [i \in 1..Len(CollapseWs(strip(text))) |->
            IF \/ IsWordChar(CollapseWs(strip(text))[i])
               \/ IsSpace(CollapseWs(strip(text))[i])
               \/ CollapseWs(strip(text))[i] \in {".", ",", "!", "?", "-"}
            THEN CollapseWs(strip(text))[i] ELSE " "]

\* a cache keyed by a digest on which texts of one length collide
CacheGet_by_length(cache, key) ==
    { e \in cache : Len(e[1]) = Len(key) }

\* EmbeddingCache.get_embedding: the entries stored under the key (the md5
\* digest of a text stands for the text)
CacheGet(cache, key) ==
    { e \in cache : e[1] = key }

\* EmbeddingCache.store_embedding
CacheStore(cache, key, embedding) ==
    (cache \ CacheGet(cache, key)) \cup {<<key, embedding>>}

\* NLPEngine.generate_embedding for the processed text `key`: the vector and
\* the cache afterwards
EmbeddingFor(text, key, cache, backend, emb) ==
    IF text = <<>> THEN [embedding |-> ZeroVector, cache |-> cache]
    ELSE IF CacheGet(cache, key) # {}
    THEN [embedding |-> (CHOOSE e \in CacheGet(cache, key) : TRUE)[2], cache |-> cache]
    ELSE IF backend = "ok"
    THEN [embedding |-> emb[key], cache |-> CacheStore(cache, key, emb[key])]
    ELSE [embedding |-> ZeroVector, cache |-> cache]

generate_embedding(text, cache, backend, emb) ==
    EmbeddingFor(text, preprocess_text(text), cache, backend, emb)

\* max(0.0, min(1.0, similarity))
Clamp01(x) ==
    IF x[1] < 0 THEN <<0, 1>> ELSE IF x[1] > x[2] THEN <<1, 1>> ELSE x

\* the second half of compute_semantic_similarity, emb1 being computed
SimilarityWith(first, text2, backend, emb) ==
    [similarity |->
        Clamp01(cosine_similarity(first.embedding,
                    generate_embedding(text2, first.cache, backend, emb).embedding)),
     cache |-> generate_embedding(text2, first.cache, backend, emb).cache]

\* NLPEngine.compute_semantic_similarity: the similarity and the cache
compute_semantic_similarity(text1, text2, cache, backend, emb) ==
    SimilarityWith(generate_embedding(text1, cache, backend, emb), text2, backend, emb)

(***************************************************************************)
(* The fit scorers.  Scores are held in tenths, so that the one-decimal    *)
(* scores of fixed_enhanced_backend and the integer scores of the other    *)
(* scripts have one unit.                                                  *)
(***************************************************************************)
\* int(num / den): the fraction cut towards zero
Trunc(num, den) == IF num >= 0 THEN num \div den ELSE -((-num) \div den)

\* max(lo, min(hi, x))
Clamp(lo, hi, x) == Max(lo, Min(hi, x))

\* final_backend.extract_skills: its skill list cut down to the skills the
\* model's texts can name, and the set list(set(found)) is built from
FinalSkills == <<lower(sJava), lower(sSQL), lower(sMySQL), lower(sAWS), lower(sGit)>>

extract_skills(text) ==
    { title(FinalSkills[i]) :
        i \in { k \in 1..Len(FinalSkills) : IsSubstr(FinalSkills[k], lower(text)) } }

\* the job skills counted in `matching`: those whose lower-case form is in
\* resume_skills_lower
FinalMatching(job_skills, resume_skills) ==
    SelectSeq(job_skills, LAMBDA skill : InList(lower(skill), LowerAll(resume_skills)))

\* missing = [skill for skill in job_skills
\*            if skill.lower() not in resume_skills_lower]
FinalMissing(job_skills, resume_skills) ==
    SelectSeq(job_skills, LAMBDA skill : ~InList(lower(skill), LowerAll(resume_skills)))

\* skill_ratio: matching / max(len(job_skills), 1) if job_skills else 0.5
SkillRatio(matching, total) == IF total > 0 THEN <<matching, total>> ELSE <<1, 2>>

\* the fit score without the line max(25, min(95, fit_score))
ClampedFit_unclamped(similarity, ratio, wsim, wskill) ==
    Trunc(10 * (wsim * similarity[1] * ratio[2] + wskill * ratio[1] * similarity[2]),
          similarity[2] * ratio[2])

\* int((similarity * wsim + ratio * wskill) * 100), the weights in tenths,
\* then max(25, min(95, fit_score))
ClampedFit(similarity, ratio, wsim, wskill) ==
    Clamp(25, 95,
          Trunc(10 * (wsim * similarity[1] * ratio[2] + wskill * ratio[1] * similarity[2]),
                similarity[2] * ratio[2]))

\* final_backend.calculate_fit_score from the similarity on: the jitter is
\* the value of np.random.randint(-8, 12)
FinalJitter == (-8)..11

\* the shortlist probability without the line max(15, min(88, shortlist))
FinalShortlist_unclamped(fit_score, jitter) ==
    Trunc(8 * fit_score + 10 * jitter, 10)

\* int(fit_score * 0.8 + jitter), then max(15, min(88, shortlist))
FinalShortlist(fit_score, jitter) ==
    Clamp(15, 88, Trunc(8 * fit_score + 10 * jitter, 10))

calculate_fit_score(similarity, job_skills, resume_skills, jitter) ==
    [fit_score |->
        10 * ClampedFit(similarity,
                        SkillRatio(Cardinality(job_skills \cap resume_skills),
                                   Cardinality(job_skills)), 6, 4),
     selection_probability |->
        10 * FinalShortlist(
                ClampedFit(similarity,
                           SkillRatio(Cardinality(job_skills \cap resume_skills),
                                      Cardinality(job_skills)), 6, 4), jitter)]

\* backend_final.analyze_resume from the similarity on: the jitter is the
\* value of np.random.randint(-10, 15)
BackendFinalJitter == (-10)..14

BackendFinalShortlist(fit_score, jitter) ==
    Trunc(Clamp(150, 900, 8 * fit_score + 10 * jitter), 10)

backend_final_scores(similarity, job_skills, resume_skills, jitter) ==
    [fit_score |->
        10 * ClampedFit(similarity,
                        SkillRatio(Cardinality(job_skills \cap resume_skills),
                                   Cardinality(job_skills)), 7, 3),
     selection_probability |->
        10 * BackendFinalShortlist(
                ClampedFit(similarity,
                           SkillRatio(Cardinality(job_skills \cap resume_skills),
                                      Cardinality(job_skills)), 7, 3), jitter)]

\* main.analyze_resume: fit_score = int(overall_match_score * 100); the
\* shortlist probability comes from the prediction model, which is not
\* part of this model
main_fit_score(overall_match_score) ==
    10 * Trunc(100 * overall_match_score[1], overall_match_score[2])

\* experience_keywords of analyze_resume_comprehensive
FEExperienceKeywords ==
    { <<"y","e","a","r","s">>,
      <<"e","x","p","e","r","i","e","n","c","e">>,
      <<"w","o","r","k","e","d">>,
      <<"d","e","v","e","l","o","p","e","d">>,
      <<"m","a","n","a","g","e","d">>,
      <<"l","e","d">>,
      <<"c","r","e","a","t","e","d">> }

\* the scores of analyze_resume_comprehensive from its match analysis
EnhancedScores(match_analysis, experience_mentions) ==
    [fit_score |->
        RoundHalfEven(6 * match_analysis.match_percentage
                      + 4 * Min(match_analysis.match_percentage
                                + 10 * Min(match_analysis.extra_count * 2, 15)
                                + 10 * Min(experience_mentions * 3, 20), 950), 10),
     selection_probability |->
        Min(match_analysis.match_percentage
            + 10 * Min(match_analysis.extra_count * 2, 15)
            + 10 * Min(experience_mentions * 3, 20), 950)]

\* fixed_enhanced_backend.analyze_resume_comprehensive, its scores
analyze_resume_comprehensive(resume_text, job_description) ==
    EnhancedScores(
        calculate_exact_match_percentage(extract_skills_enhanced(resume_text),
                                         extract_skills_enhanced(job_description)),
        Cardinality({ kw \in FEExperienceKeywords : IsSubstr(kw, lower(resume_text)) }))

(***************************************************************************)
(* The request handlers of one server process.  final_backend keeps the     *)
(* uploaded resume in the module global resume_data, backend_final in       *)
(* uploaded_resume_text and uploaded_resume_data, main in                   *)
(* uploaded_resume_data; the variable resume_data is that global, None      *)
(* while it is the empty dict the module starts with.  An upload is the     *)
(* text of the file sent (final_backend, backend_final) or the dict posted  *)
(* to /api/v1/store-resume (main).                                          *)
(***************************************************************************)
\* upload_resume of final_backend and backend_final raises where the text
\* is blank and leaves the global alone; store_resume_data takes any dict
AcceptsUpload(script, upload) ==
    script = "main" \/ strip(upload.text) # <<>>

\* the dict the handler stores in the global
StoredData(script, upload) ==
    IF script = "final_backend"
    THEN [skills |-> extract_skills(upload.text), text |-> upload.text]
    ELSE IF script = "backend_final"
    THEN [skills |-> backend_final_found_skills(upload.text), text |-> upload.text]
    ELSE upload

\* final_backend.analyze
analyze(data, job_description, backend, emb, jitter) ==
    IF data = None THEN [status |-> 400, detail |-> "Please upload a resume first"]
    ELSE IF strip(job_description) = <<>>
    THEN [status |-> 400, detail |-> "Job description is required"]
    ELSE [status |-> 200,
          skills |-> ValueOf(data).skills,
          scores |-> calculate_fit_score(
                        final_similarity(ValueOf(data).text, job_description,
                                         backend, emb),
                        extract_skills(job_description),
                        ValueOf(data).skills, jitter)]

\* backend_final.analyze_resume: its HTTPException(400) is raised inside
\* the try block and leaves as a 500
analyze_resume(data, job_description, backend, emb, jitter) ==
    IF data = None
    THEN [status |-> 500, detail |-> "No resume uploaded. Please upload a resume first."]
    ELSE IF strip(job_description) = <<>>
    THEN [status |-> 500, detail |-> "Job description cannot be empty"]
    ELSE [status |-> 200,
          skills |-> ValueOf(data).skills,
          scores |-> backend_final_scores(
                        calculate_similarity(ValueOf(data).text, job_description,
                                             backend, emb),
                        backend_final_found_skills(job_description),
                        ValueOf(data).skills, jitter)]

\* main.get_company_matches
get_company_matches(data, jobs) ==
    IF data = None
    THEN [status |-> 400, detail |-> "No resume uploaded. Please upload a resume first."]
    ELSE IF ValueOf(data).skills = <<>>
    THEN [status |-> 400, detail |-> "No skills found in uploaded resume."]
    ELSE [status |-> 200,
          total_skills |-> Len(ValueOf(data).skills),
          matches |-> main_get_company_job_matches(ValueOf(data).skills, jobs)]

(***************************************************************************)
(* Course recommendations.  A recommendation is modelled by the skill it   *)
(* is for and by whether the script has a catalogued course for it.        *)
(***************************************************************************)
\* lst[:n]
Take(lst, n) == SubSeq(lst, 1, Min(n, Len(lst)))

\* keys of `courses` in final_backend.get_courses that the model's texts
\* can name
FinalCourses == {lower(sAWS), lower(sSQL)}

FinalCourseLimit == 4

\* final_backend.get_courses
get_courses(missing_skills) ==
    [i \in 1..Len(Take(missing_skills, FinalCourseLimit)) |->
        [skill |-> missing_skills[i],
         catalogued |-> lower(missing_skills[i]) \in FinalCourses]]

\* keys of course_database in clean_backend.analyze_resume_enhanced that
\* the model's texts can name
CleanCourseDatabase == {sAWS, sSQL}

CleanCritical == 5
CleanMissingHead == 3
CleanCourseLimit == 5

\* critical_missing: the missing skills among the first five job skills
CriticalMissing(job_skills, missing_skills) ==
    SelectSeq(missing_skills,
              LAMBDA skill : InList(skill, Take(job_skills, CleanCritical)))

\* the course recommendations of clean_backend.analyze_resume_enhanced for
\* priority_skills = critical_missing + missing_skills[:3]
CleanCourses(priority_skills, critical_missing) ==
    [i \in 1..Len(Take(priority_skills, CleanCourseLimit)) |->
        [skill |-> priority_skills[i],
         catalogued |-> priority_skills[i] \in CleanCourseDatabase,
         priority |-> IF InList(priority_skills[i], critical_missing)
                      THEN "High" ELSE "Medium"]]

course_recommendations(job_skills, missing_skills) ==
    CleanCourses(CriticalMissing(job_skills, missing_skills)
                    \o Take(missing_skills, CleanMissingHead),
                 CriticalMissing(job_skills, missing_skills))

(***************************************************************************)
(* The ranker as a state machine: the inputs of a ranking call are drawn   *)
(* at the start, each action is one ranker answering the call; a call is   *)
(* answered once.                                                          *)
(***************************************************************************)
RankInit ==
    /\ cand \in CandLists
    /\ catalog \in Catalogs
    /\ resumeText = tEmpty
    /\ ranker = "none"
    /\ matches = <<>>
    /\ GapIdle
    /\ SimIdle
    /\ ScoreIdle
    /\ SrvIdle
    /\ RerunIdle
    /\ GrowIdle
    /\ RecIdle
    /\ PairIdle
    /\ ConcIdle
    /\ UpIdle
    /\ FidIdle
    /\ PrioIdle
    /\ BatchIdle

\* fixed_enhanced_backend.match_jobs_realtime
RankRealtime ==
    /\ ranker = "none"
    /\ ranker' = "realtime"
    /\ matches' = match_jobs_realtime(cand, catalog)
    /\ UNCHANGED <<cand, catalog, resumeText, notRank>>

\* backend_final.get_company_job_matches
RankBackendFinal ==
    /\ ranker = "none"
    /\ ranker' = "backend_final"
    /\ matches' = backend_final_get_company_job_matches(cand, catalog)
    /\ UNCHANGED <<cand, catalog, resumeText, notRank>>

\* main.get_company_job_matches
RankMain ==
    /\ ranker = "none"
    /\ ranker' = "main"
    /\ matches' = main_get_company_job_matches(cand, catalog)
    /\ UNCHANGED <<cand, catalog, resumeText, notRank>>

\* final_backend.get_job_matches
RankFinal ==
    /\ ranker = "none"
    /\ ranker' = "final"
    /\ matches' = get_job_matches(cand, catalog)
    /\ UNCHANGED <<cand, catalog, resumeText, notRank>>

\* clean_backend.match_jobs for an uploaded resume text
ResumeTexts == {tGoSql, tSenior, tEmpty}

RankClean ==
    \E t \in ResumeTexts :
        /\ ranker = "none"
        /\ ranker' = "clean"
        /\ resumeText' = t
        /\ matches' = match_jobs(t, catalog)
        /\ UNCHANGED <<cand, catalog, notRank>>

RankNext ==
    \/ RankRealtime
    \/ RankClean
    \/ RankBackendFinal
    \/ RankMain
    \/ RankFinal

RankSpec == RankInit /\ [][RankNext]_vars

(***************************************************************************)
(* The skill gap analysis as a state machine: the resume text and the job  *)
(* description are drawn at the start, each action is one script analysing *)
(* the pair; a pair is analysed once.                                      *)
(***************************************************************************)
GapResumeTexts ==
    { <<"J","a","v","a">>,                          \* "Java"
      <<"g","o"," ","s","q","l">>,                  \* "go sql"
      <<"m","y","s","q","l">>,                      \* "mysql"
      <<"G","i","t"," ","A","W","S"," ","g","o">>,  \* "Git AWS go"
      <<>>,                                         \* ""
      <<" "," ">>,                                  \* "  "
      <<"\t","\n"," ">> }                           \* "\t\n "

GapJobTexts ==
    { <<"J","a","v","a",","," ","S","Q","L">>,                  \* "Java, SQL"
      <<"g","o"," ","a","w","s"," ","g","i","t">>,          \* "go aws git"
      <<"g","o","o","g","l","e">>,                      \* "google"
      <<"m","u","s","t"," ","h","a","v","e"," ","s","q","l">>,  \* "must have sql"
      <<"h","i">>,                                      \* "hi"
      <<"g","o"," ","s","q","l">>,                          \* "go sql"
      <<>>,                                                 \* ""
      <<" "," ">>,                                          \* "  "
      <<"\t","\n"," ">> }                                   \* "\t\n "

\* resume_skills handed to analyze_skill_gaps next to the text
GapHints == {<<>>, <<sAWS>>}

GapInit ==
    /\ gapResume \in GapResumeTexts
    /\ gapJob \in GapJobTexts
    /\ gapImpl = "none"
    /\ gapOut = <<>>
    /\ RankIdle
    /\ SimIdle
    /\ ScoreIdle
    /\ SrvIdle
    /\ RerunIdle
    /\ GrowIdle
    /\ RecIdle
    /\ PairIdle
    /\ ConcIdle
    /\ UpIdle
    /\ FidIdle
    /\ PrioIdle
    /\ BatchIdle

\* core/skill_analyzer.SkillAnalyzer.analyze_skill_gaps
GapSkillAnalyzer ==
    \E hint \in GapHints :
        LET a == analyze_skill_gaps(gapResume, gapJob, hint)
        IN /\ gapImpl = "none"
           /\ gapImpl' = "skill_analyzer"
           /\ gapOut' = [resume_skills |-> hint,
                         job_skills |-> a.job_skills,
                         matched_skills |-> a.matched_skills,
                         missing_skills |-> a.missing_skills,
                         importances |-> a.importances,
                         score |-> a.overall_match_score,
                         critical_gaps |-> a.critical_gaps]
           /\ UNCHANGED <<gapResume, gapJob, notGap>>

\* fixed_enhanced_backend.analyze_resume_comprehensive, its skill analysis
GapFixedEnhanced ==
    LET resume_skills == extract_skills_enhanced(gapResume)
        job_skills == extract_skills_enhanced(gapJob)
        match_analysis == calculate_exact_match_percentage(resume_skills, job_skills)
    IN /\ gapImpl = "none"
       /\ gapImpl' = "fixed_enhanced"
       /\ gapOut' = [resume_skills |-> resume_skills,
                     job_skills |-> job_skills,
                     matched_skills |-> match_analysis.matched_skills,
                     missing_skills |-> match_analysis.missing_skills,
                     importances |-> <<>>,
                     score |-> <<match_analysis.match_percentage, 1000>>,
                     critical_gaps |-> <<>>]
       /\ UNCHANGED <<gapResume, gapJob, notGap>>

\* backend_final: upload_resume extracts the resume's skills,
\* analyze_skill_match extracts the job's; list(set(...)) yields them in an
\* order the code does not fix
GapBackendFinal ==
    \E resume_skills \in ListsOf(backend_final_found_skills(gapResume)),
       job_skills \in ListsOf(backend_final_found_skills(gapJob)) :
        LET a == analyze_skill_match(resume_skills, job_skills)
        IN /\ gapImpl = "none"
           /\ gapImpl' = "backend_final"
           /\ gapOut' = [resume_skills |-> resume_skills,
                         job_skills |-> job_skills,
                         matched_skills |-> a.matching_skills,
                         missing_skills |-> a.missing_skills,
                         importances |-> <<>>,
                         score |-> a.skill_match_ratio,
                         critical_gaps |-> <<>>]
           /\ UNCHANGED <<gapResume, gapJob, notGap>>

\* final_backend: upload_resume extracts the resume's skills and
\* calculate_fit_score the job's, both with extract_skills; list(set(...))
\* yields them in an order the code does not fix
GapFinal ==
    \E resume_skills \in ListsOf(extract_skills(gapResume)),
       job_skills \in ListsOf(extract_skills(gapJob)) :
        /\ gapImpl = "none"
        /\ gapImpl' = "final_backend"
        /\ gapOut' = [resume_skills |-> resume_skills,
                      job_skills |-> job_skills,
                      matched_skills |-> FinalMatching(job_skills, resume_skills),
                      missing_skills |-> FinalMissing(job_skills, resume_skills),
                      importances |-> <<>>,
                      score |-> SkillRatio(Len(FinalMatching(job_skills, resume_skills)),
                                           Len(job_skills)),
                      critical_gaps |-> <<>>]
        /\ UNCHANGED <<gapResume, gapJob, notGap>>

GapNext ==
    \/ GapSkillAnalyzer
    \/ GapFixedEnhanced
    \/ GapBackendFinal
    \/ GapFinal

GapSpec == GapInit /\ [][GapNext]_vars

(***************************************************************************)
(* The gap analysis repeated after one of the job's skills that the        *)
(* analysis reported missing has been added verbatim, after a space, to    *)
(* the resume text; the job text stays as it is.                           *)
(***************************************************************************)
\* the record kept of an analysis of skill_analyzer
SkillAnalyzerRecord(a, hint) ==
    [resume_skills |-> hint,
     job_skills |-> a.job_skills,
     matched_skills |-> a.matched_skills,
     missing_skills |-> a.missing_skills,
     importances |-> a.importances,
     score |-> a.overall_match_score,
     critical_gaps |-> a.critical_gaps]

\* the record kept of an analysis of fixed_enhanced_backend
FixedEnhancedRecord(resume_skills, job_skills, match_analysis) ==
    [resume_skills |-> resume_skills,
     job_skills |-> job_skills,
     matched_skills |-> match_analysis.matched_skills,
     missing_skills |-> match_analysis.missing_skills,
     importances |-> <<>>,
     score |-> <<match_analysis.match_percentage, 1000>>,
     critical_gaps |-> <<>>]

FixedEnhancedAnalysis(resume_skills, job_skills) ==
    FixedEnhancedRecord(resume_skills, job_skills,
                        calculate_exact_match_percentage(resume_skills, job_skills))

\* core/skill_analyzer.SkillAnalyzer.analyze_skill_gaps on the longer text
GrowSkillAnalyzer ==
    /\ gapImpl = "skill_analyzer"
    /\ gapAdded < MaxAdded
    /\ \E sk \in Range(gapOut.missing_skills) :
        /\ gapAdded' = gapAdded + 1
        /\ gapBefore' = gapOut.score
        /\ gapResume' = gapResume \o <<" ">> \o sk
        /\ gapOut' = SkillAnalyzerRecord(
                         analyze_skill_gaps(gapResume \o <<" ">> \o sk, gapJob,
                                            gapOut.resume_skills),
                         gapOut.resume_skills)
        /\ UNCHANGED <<gapJob, gapImpl, notGapGrow>>

\* fixed_enhanced_backend.analyze_resume_comprehensive on the longer text
GrowFixedEnhanced ==
    /\ gapImpl = "fixed_enhanced"
    /\ gapAdded < MaxAdded
    /\ \E sk \in Range(gapOut.missing_skills) :
        /\ gapAdded' = gapAdded + 1
        /\ gapBefore' = gapOut.score
        /\ gapResume' = gapResume \o <<" ">> \o sk
        /\ gapOut' = FixedEnhancedAnalysis(
                         extract_skills_enhanced(gapResume \o <<" ">> \o sk),
                         gapOut.job_skills)
        /\ UNCHANGED <<gapJob, gapImpl, notGapGrow>>

GrowNext ==
    \/ GapSkillAnalyzer
    \/ GapFixedEnhanced
    \/ GrowSkillAnalyzer
    \/ GrowFixedEnhanced

GrowSpec == GapInit /\ [][GrowNext]_vars

(***************************************************************************)
(* The similarity providers as a state machine: two texts and the state of *)
(* the embedding model are drawn at the start; each action is one script   *)
(* asked for similarity(a, b) and then for similarity(b, a).               *)
(***************************************************************************)
SimTexts ==
    { <<>>,                 \* ""
      <<" ">>,              \* " "
      <<"a">>,              \* "a"
      <<"A", " ", "b">>,    \* "A b"
      <<"b", " ", "c">>,    \* "b c"
      <<"?", "!">> }        \* "?!"

SimInit ==
    /\ simA \in SimTexts
    /\ simB \in SimTexts
    /\ simBackend \in {"ok", "missing", "raises"}
    /\ simEmb = <<>>
    /\ simCache = {}
    /\ simImpl = "none"
    /\ simOut = <<>>
    /\ RankIdle
    /\ GapIdle
    /\ ScoreIdle
    /\ SrvIdle
    /\ RerunIdle
    /\ GrowIdle
    /\ RecIdle
    /\ PairIdle
    /\ ConcIdle
    /\ UpIdle
    /\ FidIdle
    /\ PrioIdle
    /\ BatchIdle

\* the embedding models over the texts handed to encode
EmbModels(texts) == [texts -> EmbVectors]

\* final_backend.calculate_fit_score, its similarity
SimFinal ==
    \E emb \in EmbModels({simA, simB}) :
        /\ simImpl = "none"
        /\ simImpl' = "final_backend"
        /\ simEmb' = emb
        /\ simOut' = [ab |-> final_similarity(simA, simB, simBackend, emb),
                      ba |-> final_similarity(simB, simA, simBackend, emb)]
        /\ UNCHANGED <<simA, simB, simBackend, simCache, notSim>>

\* working_backend.calculate_fit_score, its similarity
SimWorking ==
    \E emb \in EmbModels({simA, simB}) :
        /\ simImpl = "none"
        /\ simImpl' = "working_backend"
        /\ simEmb' = emb
        /\ simOut' = [ab |-> working_similarity(simA, simB, simBackend, emb),
                      ba |-> working_similarity(simB, simA, simBackend, emb)]
        /\ UNCHANGED <<simA, simB, simBackend, simCache, notSim>>

\* backend_final.calculate_similarity
SimBackendFinal ==
    \E emb \in EmbModels({simA, simB}) :
        /\ simImpl = "none"
        /\ simImpl' = "backend_final"
        /\ simEmb' = emb
        /\ simOut' = [ab |-> calculate_similarity(simA, simB, simBackend, emb),
                      ba |-> calculate_similarity(simB, simA, simBackend, emb)]
        /\ UNCHANGED <<simA, simB, simBackend, simCache, notSim>>

\* clean_backend.calculate_similarity_simple
SimClean ==
    /\ simImpl = "none"
    /\ simImpl' = "clean_backend"
    /\ simOut' = [ab |-> calculate_similarity_simple(simA, simB),
                  ba |-> calculate_similarity_simple(simB, simA)]
    /\ UNCHANGED <<simA, simB, simBackend, simEmb, simCache, notSim>>

\* core/nlp_engine.NLPEngine.compute_semantic_similarity; an engine exists
\* only if its model was loaded
SimNlpEngine ==
    \E emb \in EmbModels({preprocess_text(simA), preprocess_text(simB)}) :
        /\ simImpl = "none"
        /\ simBackend # "missing"
        /\ simImpl' = "nlp_engine"
        /\ simEmb' = emb
        /\ simOut' =
             [ab |-> compute_semantic_similarity(simA, simB, simCache,
                                                 simBackend, emb).similarity,
              ba |-> compute_semantic_similarity(simB, simA,
                         compute_semantic_similarity(simA, simB, simCache,
                                                     simBackend, emb).cache,
                         simBackend, emb).similarity]
        /\ simCache' = compute_semantic_similarity(simB, simA,
                           compute_semantic_similarity(simA, simB, simCache,
                                                       simBackend, emb).cache,
                           simBackend, emb).cache
        /\ UNCHANGED <<simA, simB, simBackend, notSim>>

SimNext ==
    \/ SimFinal
    \/ SimWorking
    \/ SimBackendFinal
    \/ SimClean
    \/ SimNlpEngine

SimSpec == SimInit /\ [][SimNext]_vars

(***************************************************************************)
(* The fit scorers as a state machine: the two texts and the similarity    *)
(* are drawn at the start, each action is one script scoring them.         *)
(***************************************************************************)
ScoreResumeTexts ==
    GapResumeTexts \cup { <<"l","e","d"," ","s","q","l"," ","2"," ","y","e","a","r","s">> }   \* "led sql 2 years"

\* values a similarity step can give: cosines of embedding vectors, the
\* constant 0.5, token overlaps.  The scorers compute in binary floating
\* point; the values are such that int(...) of the float expression is the
\* integer part of the exact one, which for the weights 0.7 and 0.3 of
\* backend_final is not so at 0.5
SimValues == {<<-4, 5>>, <<0, 1>>, <<1, 2>>, <<16, 25>>, <<1, 1>>}
BackendFinalSimValues == SimValues \ {<<1, 2>>}

ScoreInit ==
    /\ scoreResume \in ScoreResumeTexts
    /\ scoreJob \in GapJobTexts
    /\ scoreSim \in SimValues
    /\ scoreImpl = "none"
    /\ scoreOut = <<>>
    /\ RankIdle
    /\ GapIdle
    /\ SimIdle
    /\ SrvIdle
    /\ RerunIdle
    /\ GrowIdle
    /\ RecIdle
    /\ PairIdle
    /\ ConcIdle
    /\ UpIdle
    /\ FidIdle
    /\ PrioIdle
    /\ BatchIdle

\* final_backend.calculate_fit_score
ScoreFinal ==
    \E jitter \in FinalJitter :
        /\ scoreImpl = "none"
        /\ scoreImpl' = "final_backend"
        /\ scoreOut' = calculate_fit_score(scoreSim, extract_skills(scoreJob),
                                           extract_skills(scoreResume), jitter)
        /\ UNCHANGED <<scoreResume, scoreJob, scoreSim, notScore>>

\* backend_final.analyze_resume
ScoreBackendFinal ==
    \E jitter \in BackendFinalJitter :
        /\ scoreImpl = "none"
        /\ scoreSim \in BackendFinalSimValues
        /\ scoreImpl' = "backend_final"
        /\ scoreOut' = backend_final_scores(scoreSim,
                                            backend_final_found_skills(scoreJob),
                                            backend_final_found_skills(scoreResume),
                                            jitter)
        /\ UNCHANGED <<scoreResume, scoreJob, scoreSim, notScore>>

\* main.analyze_resume
ScoreMain ==
    \E hint \in GapHints :
        /\ scoreImpl = "none"
        /\ scoreImpl' = "main"
        /\ scoreOut' =
             [fit_score |->
                main_fit_score(analyze_skill_gaps(scoreResume, scoreJob,
                                                  hint).overall_match_score)]
        /\ UNCHANGED <<scoreResume, scoreJob, scoreSim, notScore>>

\* fixed_enhanced_backend.analyze_resume_comprehensive
ScoreFixedEnhanced ==
    /\ scoreImpl = "none"
    /\ scoreImpl' = "fixed_enhanced"
    /\ scoreOut' = analyze_resume_comprehensive(scoreResume, scoreJob)
    /\ UNCHANGED <<scoreResume, scoreJob, scoreSim, notScore>>

ScoreNext ==
    \/ ScoreFinal
    \/ ScoreBackendFinal
    \/ ScoreMain
    \/ ScoreFixedEnhanced

ScoreSpec == ScoreInit /\ [][ScoreNext]_vars

(***************************************************************************)
(* One server process and two clients.  A client uploads a resume or asks  *)
(* for an analysis; the process answers each request from its module        *)
(* global.  srvOwn records, per client, the upload the server last accepted *)
(* from that client: the resume a per-client store would hold.              *)
(***************************************************************************)
Clients == {"c1", "c2"}

SrvUploads ==
    { [text |-> <<"g","o"," ","s","q","l">>, skills |-> <<sGo, sSQL>>],          \* "go sql"
      [text |-> <<"G","i","t"," ","A","W","S"," ","g","o">>, skills |-> <<sGit, sAWS, sGo>>],    \* "Git AWS go"
      [text |-> <<" "," ">>, skills |-> <<>>] }                  \* "  "

SrvJobs ==
    { <<"g","o"," ","a","w","s"," ","g","i","t">>,   \* "go aws git"
      <<" "," ">> }  \* "  "

\* the vectors the embedding model of the process gives the texts
SrvEmbedding ==
    [t \in {u.text : u \in SrvUploads} \cup SrvJobs |->
        IF t = <<"g","o"," ","s","q","l">> THEN <<5, 0>>
        ELSE IF t = <<"G","i","t"," ","A","W","S"," ","g","o">> THEN <<3, 4>>
        ELSE <<-4, 3>>]

\* COMPANY_JOBS of the process
SrvCatalog ==
    << CHOOSE p \in PostingPool : p.company = "Alpha",
       CHOOSE p \in PostingPool : p.company = "Beta" >>

\* the response of the analysis endpoint of a script to a job description,
\* the global being data
Answer(script, model, data, job, jitter) ==
    IF script = "final_backend"
    THEN analyze(data, job, model, SrvEmbedding, jitter)
    ELSE IF script = "backend_final"
    THEN analyze_resume(data, job, model, SrvEmbedding, jitter)
    ELSE get_company_matches(data, SrvCatalog)

\* the values of np.random.randint in the handler of a script
JitterOf(script) ==
    IF script = "final_backend" THEN FinalJitter
    ELSE IF script = "backend_final" THEN BackendFinalJitter
    ELSE {0}

\* final_backend starts with model = None where the model fails to load;
\* backend_final does not start without its model
SrvInit ==
    /\ srvScript \in {"final_backend", "backend_final", "main"}
    /\ srvModel \in {"ok", "missing"}
    /\ srvScript = "backend_final" => srvModel = "ok"
    /\ srvScript = "main" => srvModel = "ok"
    /\ resume_data = None
    /\ srvOwn = [c \in Clients |-> None]
    /\ srvReq = None
    /\ srvResp = None
    /\ RankIdle
    /\ GapIdle
    /\ SimIdle
    /\ ScoreIdle
    /\ RerunIdle
    /\ GrowIdle
    /\ RecIdle
    /\ PairIdle
    /\ ConcIdle
    /\ UpIdle
    /\ FidIdle
    /\ PrioIdle
    /\ BatchIdle

\* upload_resume (final_backend, backend_final), store_resume_data (main)
Upload(c) ==
    \E upload \in SrvUploads :
        /\ resume_data' = IF AcceptsUpload(srvScript, upload)
                          THEN Some(StoredData(srvScript, upload))
                          ELSE resume_data
        /\ srvOwn' = IF AcceptsUpload(srvScript, upload)
                     THEN [srvOwn EXCEPT ![c] = Some(StoredData(srvScript, upload))]
                     ELSE srvOwn
        /\ UNCHANGED <<srvScript, srvModel, srvReq, srvResp, notSrv>>

\* analyze (final_backend), analyze_resume (backend_final),
\* get_company_matches (main)
Analyze(c) ==
    \E job \in SrvJobs, jitter \in JitterOf(srvScript) :
        /\ srvReq' = Some([client |-> c, job |-> job])
        /\ srvResp' = Some(Answer(srvScript, srvModel, resume_data, job, jitter))
        /\ UNCHANGED <<srvScript, srvModel, resume_data, srvOwn, notSrv>>

SrvNext ==
    \E c \in Clients :
        \/ Upload(c)
        \/ Analyze(c)

ServerSpec == SrvInit /\ [][SrvNext]_vars

(***************************************************************************)
(* A scorer evaluated twice on the same resume text, job text and resume   *)
(* skills.  Each evaluation calls np.random.randint on numpy's global      *)
(* generator, which the scorer neither receives nor seeds: the value of    *)
(* each call is any value of its range.                                    *)
(***************************************************************************)
RerunResumeTexts ==
    { <<"g","o"," ","s","q","l">>,    \* "go sql"
      <<>> } \* ""

RerunJobTexts ==
    { <<"g","o"," ","a","w","s"," ","g","i","t">>,    \* "go aws git"
      <<"g","o"," ","s","q","l">>,    \* "go sql"
      <<>> } \* ""

RerunInit ==
    /\ ScoreInit
    /\ scoreResume \in RerunResumeTexts
    /\ scoreJob \in RerunJobTexts

\* final_backend.calculate_fit_score, called again
RerunFinal ==
    \E jitter \in FinalJitter :
        /\ scoreImpl = "final_backend"
        /\ scoreAgain = <<>>
        /\ scoreAgain' = calculate_fit_score(scoreSim, extract_skills(scoreJob),
                                             extract_skills(scoreResume), jitter)
        /\ UNCHANGED notRerun

\* the scoring lines of backend_final.analyze_resume, run again
RerunBackendFinal ==
    \E jitter \in BackendFinalJitter :
        /\ scoreImpl = "backend_final"
        /\ scoreAgain = <<>>
        /\ scoreAgain' = backend_final_scores(scoreSim,
                                              backend_final_found_skills(scoreJob),
                                              backend_final_found_skills(scoreResume),
                                              jitter)
        /\ UNCHANGED notRerun

RerunNext ==
    \/ ScoreFinal
    \/ ScoreBackendFinal
    \/ RerunFinal
    \/ RerunBackendFinal

RerunSpec == RerunInit /\ [][RerunNext]_vars

(***************************************************************************)
(* The recommenders as a state machine: a resume text and a job text are  *)
(* drawn at the start; each action is one script's analysis reaching its   *)
(* course recommendations.  list(set(...)) yields its elements in an order *)
(* the code does not fix.                                                  *)
(***************************************************************************)
RecResumeTexts ==
    { <<>>,   \* ""
      <<"g","o"," ","s","q","l">>,     \* "go sql"
      <<"G","i","t"," ","A","W","S"," ","g","o">> }    \* "Git AWS go"

RecJobTexts ==
    { <<>>,   \* ""
      <<"g","o"," ","s","q","l"," ","a","w","s"," ","g","i","t">>,     \* "go sql aws git"
      <<"j","a","v","a"," ","m","y","s","q","l"," ","a","w","s"," ","g","i","t">>,     \* "java mysql aws git"
      <<"m","u","s","t"," ","h","a","v","e"," ","s","q","l">> }    \* "must have sql"

RecInit ==
    /\ recResume \in RecResumeTexts
    /\ recJob \in RecJobTexts
    /\ recImpl = "none"
    /\ recOut = <<>>
    /\ RankIdle
    /\ GapIdle
    /\ SimIdle
    /\ ScoreIdle
    /\ SrvIdle
    /\ RerunIdle
    /\ GrowIdle
    /\ PairIdle
    /\ ConcIdle
    /\ UpIdle
    /\ FidIdle
    /\ PrioIdle
    /\ BatchIdle

\* final_backend.analyze: calculate_fit_score returns missing[:6], and
\* get_courses recommends for it
RecFinal ==
    \E resume_skills \in ListsOf(extract_skills(recResume)),
       job_skills \in ListsOf(extract_skills(recJob)) :
        /\ recImpl = "none"
        /\ recImpl' = "final_backend"
        /\ recOut' = get_courses(Take(FinalMissing(job_skills, resume_skills), 6))
        /\ UNCHANGED <<recResume, recJob, notRec>>

\* clean_backend.analyze_resume_enhanced
RecClean ==
    \E job_skills \in ListsOf(extract_skills_simple(recJob)),
       missing_skills \in ListsOf(extract_skills_simple(recJob)
                                     \ extract_skills_simple(recResume)) :
        /\ recImpl = "none"
        /\ recImpl' = "clean_backend"
        /\ recOut' = course_recommendations(job_skills, missing_skills)
        /\ UNCHANGED <<recResume, recJob, notRec>>

RecNext ==
    \/ RecFinal
    \/ RecClean

RecSpec == RecInit /\ [][RecNext]_vars

(***************************************************************************)
(* Two candidates ranked for one posting: one holds every required skill  *)
(* of the posting, the other has the same list without one of the         *)
(* required skills.  The catalog of the ranker is the one posting.         *)
(***************************************************************************)
\* a posting with as many required skills as the postings of
\* REAL_COMPANY_JOBS have (six), and one preferred skill
BigPosting ==
    Posting("Sigma", <<sGo, sR, sSQL, sMySQL, sAWS, sGit>>, <<sJava>>, Some(50),
            "Mid-level", FALSE, "500+", dGoSql)

PairPostings == PostingPool \cup {BigPosting}

\* skills no posting names: "x1", "x2", ...
ExtraSkills(n) == [i \in 1..n |-> <<"x", <<"1","2","3","4","5","6","7","8","9">>[i]>>]

\* lst without its i-th element
RemoveAt(lst, i) == SubSeq(lst, 1, i - 1) \o SubSeq(lst, i + 1, Len(lst))

\* the lists of a candidate who holds every required skill of the posting,
\* some of its preferred skills, and up to MaxExtra other skills
FullCandidates(job) ==
    { job.required_skills
        \o SelectSeq(job.preferred_skills, LAMBDA sk : sk \in S)
        \o ExtraSkills(n) :
      S \in SUBSET Range(job.preferred_skills), n \in 0..MaxExtra }

PairInit ==
    /\ pairJob \in PairPostings
    /\ pairFull \in FullCandidates(pairJob)
    /\ pairLess \in { RemoveAt(pairFull, i) : i \in 1..Len(pairJob.required_skills) }
    /\ pairImpl = "none"
    /\ pairOut = <<>>
    /\ RankIdle
    /\ GapIdle
    /\ SimIdle
    /\ ScoreIdle
    /\ SrvIdle
    /\ RerunIdle
    /\ GrowIdle
    /\ RecIdle
    /\ ConcIdle
    /\ UpIdle
    /\ FidIdle
    /\ PrioIdle
    /\ BatchIdle

\* fixed_enhanced_backend.match_jobs_realtime, once for each candidate
PairRealtime ==
    /\ pairImpl = "none"
    /\ pairImpl' = "realtime"
    /\ pairOut' = [full |-> match_jobs_realtime(pairFull, <<pairJob>>),
                   less |-> match_jobs_realtime(pairLess, <<pairJob>>)]
    /\ UNCHANGED <<pairJob, pairFull, pairLess, notPair>>

\* backend_final.get_company_job_matches, once for each candidate
PairBackendFinal ==
    /\ pairImpl = "none"
    /\ pairImpl' = "backend_final"
    /\ pairOut' = [full |-> backend_final_get_company_job_matches(pairFull, <<pairJob>>),
                   less |-> backend_final_get_company_job_matches(pairLess, <<pairJob>>)]
    /\ UNCHANGED <<pairJob, pairFull, pairLess, notPair>>

PairNext ==
    \/ PairRealtime
    \/ PairBackendFinal

PairSpec == PairInit /\ [][PairNext]_vars

(***************************************************************************)
(* Concurrent embedding computations: the threads of one process share   *)
(* one NLPEngine and its EmbeddingCache.  A thread runs generate_embedding *)
(* for one text or generate_batch_embeddings for a list of texts; a step   *)
(* of a thread is one access to the shared dict, one call of the model or  *)
(* one write of the cache file, and the steps of the threads interleave.   *)
(***************************************************************************)
Threads == {"t1", "t2"}

tAB == <<"a", " ", "b">>            \* "a b"
tAWideB == <<"a", " ", " ", "b">>   \* "a  b", preprocessed to "a b"
tBA == <<"b", " ", "a">>            \* "b a"

\* SentenceTransformer.encode: a function of the text it is handed
encode(text) ==
    IF text = tAB THEN <<5, 0>>
    ELSE IF text = tBA THEN <<3, 4>>
    ELSE <<-4, 3>>

\* if len(self.cache) % 10 == 0: self._save_cache()
SaveEvery == 10

\* a cache file written by an earlier run of the process: nine entries
LoadedKeys == { <<"p", <<"1","2","3","4","5","6","7","8","9">>[i]>> : i \in 1..9 }
LoadedCache == { <<key, encode(key)>> : key \in LoadedKeys }

\* EmbeddingCache._load_cache: {} without a readable file
_load_cache(disk) == IF disk = None THEN {} ELSE ValueOf(disk)

\* the texts of one call: generate_embedding(text) or
\* generate_batch_embeddings(texts)
SingleTexts == {tEmpty, tAB, tAWideB, tBA}
BatchTexts == {<<tAWideB, tBA>>, <<tEmpty, tAB>>}

\* uncached_indices.index(idx)
IndexOf(lst, x) == CHOOSE i \in 1..Len(lst) : lst[i] = x /\ \A j \in 1..(i - 1) : lst[j] # x

IdleThread ==
    [pc |-> "idle", mode |-> "none", texts |-> <<>>, runs |-> 0,
     uncached_texts |-> <<>>, uncached_indices |-> <<>>,
     batch_embeddings |-> <<>>, new_embeddings |-> <<>>, stored |-> 0,
     hits |-> {}, writes |-> {}]

ConcInit ==
    /\ embDisk \in {None, Some(LoadedCache)}
    /\ embCache = _load_cache(embDisk)
    /\ thread = [t \in Threads |-> IdleThread]
    /\ RankIdle
    /\ GapIdle
    /\ SimIdle
    /\ ScoreIdle
    /\ SrvIdle
    /\ RerunIdle
    /\ GrowIdle
    /\ RecIdle
    /\ PairIdle
    /\ UpIdle
    /\ FidIdle
    /\ PrioIdle
    /\ BatchIdle

\* a thread enters generate_embedding or generate_batch_embeddings
ConcCall(t) ==
    /\ thread[t].pc \in {"idle", "done"}
    /\ thread["t1"].runs + thread["t2"].runs < MaxRuns
    /\ \E call \in ({"single"} \X {<<x>> : x \in SingleTexts})
                     \cup ({"batch"} \X BatchTexts) :
          thread' = [thread EXCEPT ![t] =
                    [@ EXCEPT !.pc = "lookup", !.mode = call[1], !.texts = call[2],
                              !.runs = @ + 1,
                              !.uncached_texts = <<>>, !.uncached_indices = <<>>,
                              !.batch_embeddings = <<>>, !.new_embeddings = <<>>,
                              !.stored = 0]]
    /\ UNCHANGED <<embCache, embDisk, notConc>>

\* the thread after the text at position Len(batch_embeddings) + 1 was
\* looked up: the next text, the model, or the return
\* the thread returns batch_embeddings; its other locals are gone
Returned(r) ==
    [r EXCEPT !.pc = "done", !.mode = "none", !.texts = <<>>,
              !.uncached_texts = <<>>, !.uncached_indices = <<>>,
              !.new_embeddings = <<>>, !.stored = 0]

AfterLookup(r) ==
    IF Len(r.batch_embeddings) < Len(r.texts) THEN r
    ELSE IF r.uncached_texts = <<>> THEN Returned(r)
    ELSE [r EXCEPT !.pc = "encode"]

\* the cache is asked for one text: 'if not text' of generate_embedding
\* returns zeros, a cached embedding is taken, another text is left to
\* the model
LookedUp(r, text, cache) ==
    IF r.mode = "single" /\ text = <<>>
    THEN Returned([r EXCEPT !.batch_embeddings = <<Some(ZeroVector)>>])
    ELSE IF CacheGet(cache, preprocess_text(text)) # {}
    THEN AfterLookup(
           [r EXCEPT !.batch_embeddings =
                        Append(@, Some((CHOOSE e \in CacheGet(cache, preprocess_text(text)) : TRUE)[2])),
                     !.hits = @ \cup {<<preprocess_text(text),
                                        (CHOOSE e \in CacheGet(cache, preprocess_text(text)) : TRUE)[2]>>}])
    ELSE AfterLookup(
           [r EXCEPT !.uncached_texts = Append(@, preprocess_text(text)),
                     !.uncached_indices = Append(@, Len(r.batch_embeddings) + 1),
                     !.batch_embeddings = Append(@, None)])

\* self.cache.get_embedding(processed_text) for the next text of the call
ConcLookup(t) ==
    /\ thread[t].pc = "lookup"
    /\ thread' = [thread EXCEPT ![t] =
                 LookedUp(thread[t], thread[t].texts[Len(thread[t].batch_embeddings) + 1], embCache)]
    /\ UNCHANGED <<embCache, embDisk, notConc>>

\* self.model.encode(...) of the texts the cache did not hold
ConcEncode(t) ==
    /\ thread[t].pc = "encode"
    /\ thread' = [thread EXCEPT ![t] =
                 [@ EXCEPT !.pc = "store",
                           !.new_embeddings =
                               [i \in 1..Len(thread[t].uncached_texts) |->
                                   encode(thread[t].uncached_texts[i])]]]
    /\ UNCHANGED <<embCache, embDisk, notConc>>

\* self.model.encode(...) raises: zeros are returned and nothing is stored
ConcEncodeRaises(t) ==
    /\ thread[t].pc = "encode"
    /\ thread' = [thread EXCEPT ![t] =
                 Returned([@ EXCEPT !.batch_embeddings =
                               [i \in 1..Len(@) |->
                                   IF @[i] = None THEN Some(ZeroVector) ELSE @[i]]])]
    /\ UNCHANGED <<embCache, embDisk, notConc>>

\* self.cache[text_hash] = embedding for the next new embedding; in the
\* batch the text is uncached_texts[uncached_indices.index(idx)]
ConcStore(t) ==
    /\ thread[t].pc = "store"
    /\ embCache' =
          CacheStore(embCache,
                     thread[t].uncached_texts[
                         IndexOf(thread[t].uncached_indices,
                                 thread[t].uncached_indices[thread[t].stored + 1])],
                     thread[t].new_embeddings[thread[t].stored + 1])
    /\ thread' = [thread EXCEPT ![t] =
                 [@ EXCEPT !.pc = "save",
                           !.stored = @ + 1,
                           !.batch_embeddings =
                               [@ EXCEPT ![thread[t].uncached_indices[thread[t].stored + 1]] =
                                   Some(thread[t].new_embeddings[thread[t].stored + 1])],
                           !.writes = @ \cup
                               {thread[t].uncached_texts[
                                    IndexOf(thread[t].uncached_indices,
                                            thread[t].uncached_indices[thread[t].stored + 1])]}]]
    /\ UNCHANGED <<embDisk, notConc>>

\* what pickle.dump(self.cache, f) leaves in the file: the dict, or a file
\* that cannot be loaded when another thread writes the dict or the file
\* meanwhile
Dumped(t) ==
    {Some(embCache)}
        \cup (IF \E u \in Threads \ {t} : thread[u].pc \in {"store", "save"}
              THEN {None} ELSE {})

\* the rest of store_embedding: the cache is saved at every tenth entry
ConcSave(t) ==
    /\ thread[t].pc = "save"
    /\ IF Cardinality({e[1] : e \in embCache}) % SaveEvery = 0
       THEN embDisk' \in Dumped(t)
       ELSE embDisk' = embDisk
    /\ thread' = [thread EXCEPT ![t] =
                 IF thread[t].stored < Len(thread[t].new_embeddings)
                 THEN [@ EXCEPT !.pc = "store"] ELSE Returned(@)]
    /\ UNCHANGED <<embCache, notConc>>

ConcNext ==
    \E t \in Threads :
        \/ ConcCall(t)
        \/ ConcLookup(t)
        \/ ConcEncode(t)
        \/ ConcEncodeRaises(t)
        \/ ConcStore(t)
        \/ ConcSave(t)

ConcSpec == ConcInit /\ [][ConcNext]_vars

(***************************************************************************)
(* Uploads.  A file is modelled by its name, by whether it has content,    *)
(* and by the text the PDF or DOCX library extracts from it ("" where the  *)
(* library raises: the extract functions catch that and return "").  The   *)
(* texts of the model hold no section header, date or page number, and the *)
(* spaCy model of the document processor is not installed.                 *)
(***************************************************************************)
\* str.endswith
EndsWith(str, suffix) ==
    /\ Len(suffix) <= Len(str)
    /\ SubSeq(str, Len(str) - Len(suffix) + 1, Len(str)) = suffix

xPdf == <<".", "p", "d", "f">>
xDocx == <<".", "d", "o", "c", "x">>
xDoc == <<".", "d", "o", "c">>

\* str.split('\n')
RECURSIVE SplitLines(_)
SplitLines(t) ==
    IF \A i \in 1..Len(t) : t[i] # "\n" THEN <<t>>
    ELSE <<SubSeq(t, 1, (CHOOSE i \in 1..Len(t) :
                            t[i] = "\n" /\ \A j \in 1..(i - 1) : t[j] # "\n") - 1)>>
         \o SplitLines(SubSeq(t, (CHOOSE i \in 1..Len(t) :
                            t[i] = "\n" /\ \A j \in 1..(i - 1) : t[j] # "\n") + 1, Len(t)))

\* the positions where a word of str.split() starts
WordStarts(line) ==
    { i \in 1..Len(line) : ~IsSpace(line[i]) /\ (i = 1 \/ IsSpace(line[i - 1])) }

\* len(line.split())
CountWords(line) == Cardinality(WordStarts(line))

\* re.match(r'^[A-Za-z\s\.]+$', line)
NameLike(line) ==
    /\ line # <<>>
    /\ \A i \in 1..Len(line) :
          IsUpper(line[i]) \/ IsLower(line[i]) \/ IsSpace(line[i]) \/ line[i] = "."

kwResume == <<"r","e","s","u","m","e">>
kwCv == <<"c","v">>
kwPhone == <<"p","h","o","n","e">>
kwEmail == <<"e","m","a","i","l">>
kwCurriculum == <<"c","u","r","r","i","c","u","l","u","m">>
kwAddress == <<"a","d","d","r","e","s","s">>
kwVitae == <<"v","i","t","a","e">>

\* the first line among lines that passes the test, or fallback
RECURSIVE FirstLine(_, _, _)
FirstLine(lines, Passes(_), fallback) ==
    IF lines = <<>> THEN fallback
    ELSE IF Passes(strip(Head(lines))) THEN strip(Head(lines))
    ELSE FirstLine(Tail(lines), Passes, fallback)

\* final_backend.extract_name, working_backend.extract_name
extract_name(text) ==
    FirstLine(Take(SplitLines(strip(text)), 3),
              LAMBDA line : /\ line # <<>>
                            /\ CountWords(line) <= 3
                            /\ NameLike(line)
                            /\ \A kw \in {kwResume, kwCv, kwPhone, kwEmail} :
                                  ~IsSubstr(kw, lower(line)),
              <<"C","a","n","d","i","d","a","t","e">>)

\* backend_final.extract_name_from_text
extract_name_from_text(text) ==
    FirstLine(Take(SplitLines(strip(text)), 5),
              LAMBDA line : /\ line # <<>>
                            /\ CountWords(line) <= 4
                            /\ Len(line) > 2
                            /\ NameLike(line)
                            /\ \A kw \in {kwResume, kwCv, kwCurriculum, kwPhone,
                                            kwEmail, kwAddress} :
                                  ~IsSubstr(kw, lower(line)),
              <<"U","n","k","n","o","w","n">>)

\* DocumentProcessor.clean_and_normalize_text
clean_and_normalize_text(text) ==
    IF text = <<>> THEN <<>>
    ELSE strip([i \in 1..Len(CollapseWs(text)) |->
                   IF \/ IsWordChar(CollapseWs(text)[i])
                      \/ IsSpace(CollapseWs(text)[i])
                      \/ CollapseWs(text)[i] \in {"@", ".", "-"}
                   THEN CollapseWs(text)[i] ELSE " "])

\* ' '.join(words[:2]) of a line of two words or more
FirstTwoWords(line) ==
    LET second == CHOOSE i \in WordStarts(line) :
                     Cardinality({j \in WordStarts(line) : j < i}) = 1
        stop == CHOOSE k \in second..Len(line) :
                     /\ \A m \in second..k : ~IsSpace(line[m])
                     /\ (k = Len(line) \/ IsSpace(line[k + 1]))
    IN SubSeq(line, 1, stop)

\* the name extract_contact_info finds in the first lines of the text, None
\* where it finds none (the words of the model's lines are one space apart)
ContactName(text) ==
    LET passes(line) ==
            /\ CountWords(line) >= 2
            /\ \A kw \in {kwResume, kwCv, kwCurriculum, kwVitae, kwPhone,
                            kwEmail, kwAddress, <<"@">>} :
                  ~IsSubstr(kw, lower(line))
            /\ \A i \in 1..Len(FirstTwoWords(line)) :
                  \/ IsUpper(FirstTwoWords(line)[i])
                  \/ IsLower(FirstTwoWords(line)[i])
                  \/ FirstTwoWords(line)[i] \in {" ", "."}
        found == FirstLine(Take(SplitLines(text), 5), passes, <<>>)
    IN IF found = <<>> THEN None ELSE Some(FirstTwoWords(found))

\* str.capitalize()
capitalize(str) ==
    [i \in 1..Len(str) |-> IF i = 1 THEN UpperChar(str[i]) ELSE LowerChar(str[i])]

\* the skills of DocumentProcessor.skill_patterns that the model's texts
\* can name and that pass len(skill) > 2
ProcessorSkills == {sJava, sSQL, sMySQL, sAWS, sGit}

\* DocumentProcessor.extract_skills: the set its sorted list is built from
processor_extract_skills(text) ==
    { capitalize(lower(sk)) : sk \in
        { k \in ProcessorSkills : SearchWord(lower(k), lower(text)) } }

\* the answer of an upload handler: the status of the response, and the
\* globals as the handler leaves them
UploadResult(status, text, data) == [status |-> status, text |-> text, data |-> data]

\* final_backend.upload_resume: the HTTPException(400) for a blank text is
\* raised inside the try block and leaves as a 500
final_upload_resume(file, text, data) ==
    IF ~(EndsWith(lower(file.filename), xPdf) \/ EndsWith(lower(file.filename), xDocx))
    THEN UploadResult(400, text, data)
    ELSE IF strip(file.text) = <<>>
    THEN UploadResult(500, text, data)
    ELSE UploadResult(200, text,
                      Some([name |-> extract_name(file.text),
                            skills |-> extract_skills(file.text),
                            text |-> file.text]))

\* working_backend.upload_resume: 'except HTTPException: raise'
working_upload_resume(file, text, data) ==
    IF ~(EndsWith(lower(file.filename), xPdf) \/ EndsWith(lower(file.filename), xDocx))
    THEN UploadResult(400, text, data)
    ELSE IF strip(file.text) = <<>>
    THEN UploadResult(400, text, data)
    ELSE UploadResult(200, text,
                      Some([name |-> extract_name(file.text),
                            skills |-> extract_skills(file.text),
                            text |-> file.text]))

\* a handler that stores the text before it looks at it
backend_final_upload_resume_stores_first(file, text, data) ==
    IF file.filename = <<>> THEN UploadResult(500, text, data)
    ELSE IF ~(EndsWith(lower(file.filename), xPdf) \/ EndsWith(lower(file.filename), xDocx))
    THEN UploadResult(500, text, data)
    ELSE IF file.size = 0 THEN UploadResult(500, text, data)
    ELSE IF strip(file.text) = <<>> THEN UploadResult(500, file.text, data)
    ELSE UploadResult(200, file.text,
                      Some([name |-> extract_name_from_text(file.text),
                            skills |-> backend_final_found_skills(file.text),
                            text |-> file.text]))

\* backend_final.upload_resume: the whole handler is one try block, each
\* of its HTTPException(400) leaves as a 500
backend_final_upload_resume(file, text, data) ==
    IF file.filename = <<>> THEN UploadResult(500, text, data)
    ELSE IF ~(EndsWith(lower(file.filename), xPdf) \/ EndsWith(lower(file.filename), xDocx))
    THEN UploadResult(500, text, data)
    ELSE IF file.size = 0 THEN UploadResult(500, text, data)
    ELSE IF strip(file.text) = <<>> THEN UploadResult(500, text, data)
    ELSE UploadResult(200, file.text,
                      Some([name |-> extract_name_from_text(file.text),
                            skills |-> backend_final_found_skills(file.text),
                            text |-> file.text]))

\* main.upload_resume: extract_structured_data raises ValueError where no
\* text was extracted
main_upload_resume(file, text, data) ==
    IF file.filename = <<>> THEN UploadResult(400, text, data)
    ELSE IF ~(\/ EndsWith(lower(file.filename), xPdf)
              \/ EndsWith(lower(file.filename), xDocx)
              \/ EndsWith(lower(file.filename), xDoc))
    THEN UploadResult(400, text, data)
    ELSE IF strip(file.text) = <<>> THEN UploadResult(500, text, data)
    ELSE UploadResult(200, text,
            Some([name |-> IF ContactName(clean_and_normalize_text(strip(file.text))) = None
                           THEN <<"U","n","k","n","o","w","n">>
                           ELSE ValueOf(ContactName(clean_and_normalize_text(strip(file.text)))),
                  skills |-> processor_extract_skills(clean_and_normalize_text(strip(file.text))),
                  text |-> clean_and_normalize_text(strip(file.text))]))

upload_resume(script, file, text, data) ==
    IF script = "final_backend" THEN final_upload_resume(file, text, data)
    ELSE IF script = "working_backend" THEN working_upload_resume(file, text, data)
    ELSE IF script = "backend_final" THEN backend_final_upload_resume(file, text, data)
    ELSE main_upload_resume(file, text, data)

UpFiles ==
    { [filename |-> <<"a">> \o xPdf, size |-> 1,
       text |-> <<"A","n","n"," ","L","e","e","\n","g","o"," ","s","q","l">>],
      [filename |-> <<"b",".","D","O","C","X">>, size |-> 1,
       text |-> <<"B","o","b"," ","R","a","y","\n","G","i","t"," ","A","W","S">>],
      [filename |-> <<"e">> \o xPdf, size |-> 1,
       text |-> <<"R","e","s","u","m","e","\n","E","v","e"," ","P","o","e","\n","m","y","s","q","l">>],
      [filename |-> <<"a">> \o xPdf, size |-> 1, text |-> <<" ","\n">>],
      [filename |-> <<"a">> \o xPdf, size |-> 0, text |-> <<>>],
      [filename |-> <<"c",".","t","x","t">>, size |-> 1,
       text |-> <<"C","y"," ","O","r","r","\n","s","q","l">>],
      [filename |-> <<>>, size |-> 1,
       text |-> <<"E","d"," ","M","a","y","\n","a","w","s">>],
      [filename |-> <<"d">> \o xDoc, size |-> 1,
       text |-> <<"D","e","e"," ","F","o","x","\n","j","a","v","a">>] }

UpInit ==
    /\ upScript \in {"final_backend", "working_backend", "backend_final", "main"}
    /\ uploaded_resume_text = <<>>
    /\ uploaded_resume_data = None
    /\ upFile = None
    /\ upResp = 0
    /\ upBefore = <<>>
    /\ upLast = None
    /\ RankIdle
    /\ GapIdle
    /\ SimIdle
    /\ ScoreIdle
    /\ SrvIdle
    /\ RerunIdle
    /\ GrowIdle
    /\ RecIdle
    /\ PairIdle
    /\ ConcIdle
    /\ FidIdle
    /\ PrioIdle
    /\ BatchIdle

\* one upload request, answered
UpUpload ==
    \E file \in UpFiles :
        /\ upFile' = Some(file)
        /\ upBefore' = <<uploaded_resume_text, uploaded_resume_data>>
        /\ upResp' = upload_resume(upScript, file, uploaded_resume_text,
                                   uploaded_resume_data).status
        /\ uploaded_resume_text' = upload_resume(upScript, file, uploaded_resume_text,
                                                 uploaded_resume_data).text
        /\ uploaded_resume_data' = upload_resume(upScript, file, uploaded_resume_text,
                                                 uploaded_resume_data).data
        /\ upLast' = IF upload_resume(upScript, file, uploaded_resume_text,
                                      uploaded_resume_data).status = 200
                     THEN Some(file) ELSE upLast
        /\ UNCHANGED <<upScript, notUp>>

UpNext == UpUpload

UpSpec == UpInit /\ [][UpNext]_vars

(***************************************************************************)
(* The file-id variants.  fixed_enhanced_backend, clean_backend and        *)
(* backend_main keep every upload in the module global uploaded_files, a   *)
(* dict from the file id the upload returned to the entry of the upload;   *)
(* analyze_resume and match_jobs take a file id.  No handler awaits, so a  *)
(* request is one step of the event loop.  A file is its name, the text    *)
(* its extractor reads from it, and whether the extractor can read it.     *)
(***************************************************************************)
MaxFiles == 2        \* most uploads one process stores

xTxt == <<".", "t", "x", "t">>

\* f"Error extracting text: {str(e)}", the message of the exception left out
tExtractError ==
    <<"E","r","r","o","r"," ","e","x","t","r","a","c","t","i","n","g"," ","t","e","x","t",":"," ">>

\* what clean_backend.extract_text_simple returns for a file that is no .txt,
\* "Text extraction available for TXT files. ...", cut down to its first
\* two words
tTxtOnly ==
    <<"T","e","x","t"," ","e","x","t","r","a","c","t","i","o","n">>

\* file_extension in allowed_extensions, file_extension being
\* Path(file.filename).suffix.lower()
AllowedExtension(filename) ==
    \/ EndsWith(lower(filename), xPdf)
    \/ EndsWith(lower(filename), xDocx)
    \/ EndsWith(lower(filename), xDoc)
    \/ EndsWith(lower(filename), xTxt)

\* extract_text_simple (fixed_enhanced_backend, clean_backend) and
\* extract_text_from_file (backend_main): a .txt is read with
\* errors='ignore' by the first two and never fails there; any other
\* failure is caught and its message returned as the text
extract_text_simple(script, file) ==
    IF script = "clean"
    THEN IF EndsWith(lower(file.filename), xTxt) THEN file.text ELSE tTxtOnly
    ELSE IF script = "fixed_enhanced"
    THEN IF EndsWith(lower(file.filename), xTxt) \/ file.readable
         THEN file.text ELSE tExtractError
    ELSE IF file.readable THEN file.text ELSE tExtractError

\* the file id of an upload that overwrites the first entry
uuid4_first(files) ==
    1

\* str(uuid.uuid4()): an id no earlier upload of the process was given
uuid4(files) ==
    Cardinality(DOMAIN files) + 1

\* d[k] = v on a dict
DictSet(d, k, v) == [x \in DOMAIN d \cup {k} |-> IF x = k THEN v ELSE d[x]]

\* the entry upload_resume stores: fixed_enhanced_backend keeps the skill
\* list with the text, the two others the text alone
FileEntry(script, file) ==
    LET extracted_text == extract_text_simple(script, file)
    IN [filename |-> file.filename,
        extracted_text |-> extracted_text,
        skills |-> IF script = "fixed_enhanced"
                   THEN Some(extract_skills_enhanced(extracted_text)) ELSE None]

\* upload_resume of the three scripts: the status, the file id returned and
\* uploaded_files as the handler leaves it
fid_upload_resume(script, file, files) ==
    IF file.filename = <<>> \/ ~AllowedExtension(file.filename)
    THEN [status |-> 400, file_id |-> None, files |-> files]
    ELSE [status |-> 200, file_id |-> Some(uuid4(files)),
          files |-> DictSet(files, uuid4(files), FileEntry(script, file))]

\* skills_database of backend_main.extract_skills_from_text, cut down to
\* the skills the model's texts can name
BackendMainSkills == <<sJava, sGo, sR, sSQL, sMySQL, sAWS>>

\* backend_main.extract_skills_from_text: list(set(found_skills)), as a set
extract_skills_from_text(text) ==
    { BackendMainSkills[i] : i \in
        { k \in 1..Len(BackendMainSkills) :
            IsSubstr(lower(BackendMainSkills[k]), lower(text)) } }

\* backend_main.analyze_resume_content: its skill sets and its similarity
analyze_resume_content(resume_text, job_description) ==
    LET resume_skills == extract_skills_from_text(resume_text)
        job_skills == extract_skills_from_text(job_description)
    IN [matched_skills |-> resume_skills \cap job_skills,
        missing_skills |-> job_skills \ resume_skills,
        semantic_similarity |-> calculate_similarity_simple(resume_text, job_description),
        total_skills_found |-> Cardinality(resume_skills)]

\* clean_backend.analyze_resume_enhanced: its skill sets and its similarity
analyze_resume_enhanced(resume_text, job_description) ==
    LET resume_skills == extract_skills_simple(resume_text)
        job_skills == extract_skills_simple(job_description)
    IN [matched_skills |-> resume_skills \cap job_skills,
        missing_skills |-> job_skills \ resume_skills,
        extra_skills |-> resume_skills \ job_skills,
        semantic_similarity |-> calculate_similarity_simple(resume_text, job_description)]

\* the JobMatch backend_main.match_jobs builds for one posting; fit_score
\* and selection_probability in tenths (round(x, 1))
BackendMainMatch(resume_text, job) ==
    LET resume_skills == extract_skills_from_text(resume_text)
        job_skills == Range(job.required_skills)
        matched_skills == resume_skills \cap job_skills
        n == IF job_skills = {} THEN 1 ELSE Cardinality(job_skills)
        sim == calculate_similarity_simple(resume_text, job.description)
        num == 600 * Cardinality(matched_skills) * sim[2] + 400 * sim[1] * n
        den == n * sim[2]
    IN [company |-> job.company,
        fit_score |-> RoundHalfEven(num, den),
        skills_overlap |-> matched_skills,
        missing_skills |-> job_skills \ resume_skills,
        selection_probability |-> Min(RoundHalfEven(12 * num, 10 * den), 950)]

\* backend_main.match_jobs over MOCK_JOBS = jobs:
\* matches.sort(key=lambda x: x.fit_score, reverse=True)
backend_main_match_jobs(resume_text, jobs) ==
    LET ms == [i \in 1..Len(jobs) |-> BackendMainMatch(resume_text, jobs[i])]
    IN SortDescStable(ms, FitKeys(ms))

\* the job catalog of the process
FidJobs ==
    << CHOOSE p \in PostingPool : p.company = "Alpha",
       CHOOSE p \in PostingPool : p.company = "Beta" >>

\* analyze_resume: 404 for a file id that is no key of uploaded_files,
\* else the analysis of the text stored under it
fid_analyze_resume(script, file_id, job_description, files) ==
    IF file_id \notin DOMAIN files THEN [status |-> 404, body |-> None]
    ELSE LET resume_text == files[file_id].extracted_text
         IN [status |-> 200,
             body |-> Some(IF script = "fixed_enhanced"
                           THEN analyze_resume_comprehensive(resume_text, job_description)
                           ELSE IF script = "clean"
                           THEN analyze_resume_enhanced(resume_text, job_description)
                           ELSE analyze_resume_content(resume_text, job_description))]

\* match_jobs: fixed_enhanced_backend ranks the skill list stored under the
\* file id, the two others extract the skills from the stored text
fid_match_jobs(script, file_id, files) ==
    IF file_id \notin DOMAIN files THEN [status |-> 404, body |-> None]
    ELSE [status |-> 200,
          body |-> Some(IF script = "fixed_enhanced"
                        THEN match_jobs_realtime(ValueOf(files[file_id].skills), FidJobs)
                        ELSE IF script = "clean"
                        THEN match_jobs(files[file_id].extracted_text, FidJobs)
                        ELSE backend_main_match_jobs(files[file_id].extracted_text, FidJobs))]

FidFiles ==
    { [filename |-> <<"a">> \o xTxt, text |-> tGoSql, readable |-> TRUE],
      [filename |-> <<"b">> \o xPdf, text |-> tSenior, readable |-> TRUE],
      [filename |-> <<"c",".","T","X","T">>, text |-> tEmpty, readable |-> TRUE],
      [filename |-> <<"d">> \o xDocx, text |-> tEmpty, readable |-> FALSE],
      [filename |-> <<"e",".","e","x","e">>, text |-> tGoSql, readable |-> TRUE],
      [filename |-> <<>>, text |-> tSenior, readable |-> TRUE] }

FidJobTexts == {dGoSql, tEmpty}

\* the file ids a client may send: the ids given out and one never given
FileIds == 1..(MaxFiles + 1)

FidInit ==
    /\ fidScript \in {"fixed_enhanced", "clean", "backend_main"}
    /\ uploaded_files = <<>>
    /\ fidIssued = <<>>
    /\ fidReq = None
    /\ fidResp = None
    /\ RankIdle
    /\ GapIdle
    /\ SimIdle
    /\ ScoreIdle
    /\ SrvIdle
    /\ RerunIdle
    /\ GrowIdle
    /\ RecIdle
    /\ PairIdle
    /\ ConcIdle
    /\ UpIdle
    /\ PrioIdle
    /\ BatchIdle

\* POST /upload_resume, answered
FidUpload ==
    /\ Cardinality(DOMAIN uploaded_files) < MaxFiles
    /\ \E file \in FidFiles :
        LET r == fid_upload_resume(fidScript, file, uploaded_files)
        IN /\ fidReq' = Some([op |-> "upload", file |-> file])
           /\ fidResp' = Some([status |-> r.status, file_id |-> r.file_id])
           /\ uploaded_files' = r.files
           /\ fidIssued' = IF r.status = 200 /\ ValueOf(r.file_id) \notin DOMAIN fidIssued
                           THEN DictSet(fidIssued, ValueOf(r.file_id),
                                        extract_text_simple(fidScript, file))
                           ELSE fidIssued
           /\ UNCHANGED <<fidScript, notFid>>

\* POST /analyze_resume, answered
FidAnalyze ==
    \E file_id \in FileIds, job_description \in FidJobTexts :
        /\ fidReq' = Some([op |-> "analyze", file_id |-> file_id,
                           job_description |-> job_description])
        /\ fidResp' = Some(fid_analyze_resume(fidScript, file_id, job_description,
                                              uploaded_files))
        /\ UNCHANGED <<fidScript, uploaded_files, fidIssued, notFid>>

\* GET /match_jobs, answered
FidMatch ==
    \E file_id \in FileIds :
        /\ fidReq' = Some([op |-> "match", file_id |-> file_id])
        /\ fidResp' = Some(fid_match_jobs(fidScript, file_id, uploaded_files))
        /\ UNCHANGED <<fidScript, uploaded_files, fidIssued, notFid>>

FidNext ==
    \/ FidUpload
    \/ FidAnalyze
    \/ FidMatch

FidSpec == FidInit /\ [][FidNext]_vars

(***************************************************************************)
(* core/upskilling_engine.py: UpskillingEngine._prioritize_skills.  A      *)
(* simulation is the skill, its roi_score in ten-thousandths and its      *)
(* time_to_acquire, the string _format_time_estimate built from the weeks  *)
(* of the skill.  create_upskilling_plan passes one simulation per entry   *)
(* of missing_skills, sorted by roi_score; the prerequisite table is the   *)
(* attribute self.skill_prerequisites.  The while loop runs one iteration  *)
(* per step.                                                               *)
(***************************************************************************)
MaxSkills == 3       \* longest list of missing skills

DigitChars == <<"0","1","2","3","4","5","6","7","8","9">>

\* str(n) for n >= 0
RECURSIVE IntToStr(_)
IntToStr(n) ==
    IF n < 10 THEN <<DigitChars[n + 1]>>
    ELSE IntToStr(n \div 10) \o <<DigitChars[(n % 10) + 1]>>

\* int(s) for a string of digits
RECURSIVE StrToInt(_)
StrToInt(s) ==
    IF Len(s) = 1 THEN (CHOOSE d \in 0..9 : DigitChars[d + 1] = s[1])
    ELSE 10 * StrToInt(SubSeq(s, 1, Len(s) - 1))
         + (CHOOSE d \in 0..9 : DigitChars[d + 1] = s[Len(s)])

\* s.split()[0] for a string that starts with a character that is no space
FirstWord(s) ==
    IF \A i \in 1..Len(s) : ~IsSpace(s[i]) THEN s
    ELSE SubSeq(s, 1, (CHOOSE i \in 1..Len(s) :
                          IsSpace(s[i]) /\ \A j \in 1..(i - 1) : ~IsSpace(s[j])) - 1)

\* _format_time_estimate(weeks)
_format_time_estimate(weeks) ==
    IF weeks <= 4
    THEN IntToStr(weeks) \o <<" ","w","e","e","k","s"," ","(","1"," ","m","o","n","t","h",")">>
    ELSE IntToStr(weeks) \o <<" ","w","e","e","k","s"," ","(">>
         \o IntToStr(RoundHalfEven(weeks, 4)) \o <<" ","m","o","n","t","h","s",")">>

\* int(sim.time_to_acquire.split()[0])
weeks_needed(sim) == StrToInt(FirstWord(sim.time_to_acquire))

\* time_weeks of skill_metadata for the skills of the model
TimeWeeks ==
    [skill \in {"React", "JavaScript", "Docker", "Kubernetes"} |->
        IF skill = "React" THEN 10
        ELSE IF skill = "JavaScript" THEN 6
        ELSE IF skill = "Docker" THEN 6
        ELSE 20]

PrioSkills == DOMAIN TimeWeeks

\* roi_score of each skill in ten-thousandths, as simulate_skill_impact
\* computes it for a current probability of 0.4: with the importance 0.7
\* for every skill, and with the importance 1.0 for Kubernetes and
\* JavaScript and 0.3 for React and Docker
RoiTables ==
    { [skill \in PrioSkills |->
          IF skill = "React" THEN 46925
          ELSE IF skill = "JavaScript" THEN 44300
          ELSE IF skill = "Docker" THEN 45300
          ELSE 44675],
      [skill \in PrioSkills |->
          IF skill = "React" THEN 43325
          ELSE IF skill = "JavaScript" THEN 47000
          ELSE IF skill = "Docker" THEN 41700
          ELSE 47375] }

\* prerequisite tables: the entries of self.skill_prerequisites for the
\* skills of the model, a table with a cycle, a table where a skill
\* requires itself, and the empty table
PrerequisiteTables ==
    { [skill \in {"React", "Kubernetes"} |->
          IF skill = "React" THEN <<"JavaScript", "HTML", "CSS">>
          ELSE <<"Docker", "Linux">>],
      [skill \in {"React", "JavaScript", "Kubernetes"} |->
          IF skill = "React" THEN <<"JavaScript">>
          ELSE IF skill = "JavaScript" THEN <<"React">>
          ELSE <<"Docker">>],
      [skill \in {"Docker"} |-> <<"Docker">>],
      <<>> }

\* dict.get(key, [])
GetList(dict, key) == IF key \in DOMAIN dict THEN dict[key] ELSE <<>>

\* the List[str] missing_skills
MissingSkillLists == UNION { [1..n -> PrioSkills] : n \in 0..MaxSkills }

\* the simulations create_upskilling_plan passes: one per missing skill,
\* skill_simulations.sort(key=lambda x: x.roi_score, reverse=True)
SimulationsFor(missing_skills, roi) ==
    LET sims == [i \in 1..Len(missing_skills) |->
                    [skill |-> missing_skills[i],
                     roi_score |-> roi[missing_skills[i]],
                     time_to_acquire |-> _format_time_estimate(TimeWeeks[missing_skills[i]])]]
    IN SortDescStable(sims, [i \in 1..Len(sims) |-> <<sims[i].roi_score>>])

\* the keys of a dict kept as the list of its values, in insertion order
Keys(sims) == {sims[i].skill : i \in 1..Len(sims)}

\* {sim.skill: sim for sim in simulations}: a key keeps the place of its
\* first simulation and the value of its last
DictOfSims(sims) ==
    LET firsts == SelectSeq([i \in 1..Len(sims) |-> i],
                            LAMBDA i : \A j \in 1..(i - 1) : sims[j].skill # sims[i].skill)
        last(skill) == CHOOSE i \in 1..Len(sims) :
                          /\ sims[i].skill = skill
                          /\ \A j \in (i + 1)..Len(sims) : sims[j].skill # skill
    IN [k \in 1..Len(firsts) |-> sims[last(sims[firsts[k]].skill)]]

\* the filter of _prioritize_skills: 'if time_constraint:' is false for
\* None and for 0
FilteredSims(sims, constraint) ==
    IF constraint = None \/ constraint = Some(0) THEN sims
    ELSE SelectSeq(sims, LAMBDA sim : weeks_needed(sim) <= ValueOf(constraint))

\* ready_skills that takes every remaining skill for ready
ReadySkills_all(remaining, deps) ==
    remaining

\* ready_skills: the remaining skills with no prerequisite among the
\* remaining skills
ReadySkills(remaining, deps) ==
    SelectSeq(remaining,
              LAMBDA sim : \A dep \in Range(GetList(deps, sim.skill)) :
                              dep \notin Keys(remaining))

\* max(remaining_skills.items(), key=lambda x: x[1].roi_score): the first
\* of the simulations with the highest roi_score
MaxRoi(remaining) ==
    remaining[CHOOSE i \in 1..Len(remaining) :
                 /\ \A j \in 1..Len(remaining) : remaining[j].roi_score <= remaining[i].roi_score
                 /\ \A j \in 1..(i - 1) : remaining[j].roi_score < remaining[i].roi_score]

\* best_skill of one iteration of the while loop
BestSkill(remaining, deps) ==
    LET ready == ReadySkills(remaining, deps)
        ready_skills == IF ready = <<>> THEN <<MaxRoi(remaining)>> ELSE ready
    IN SortDescStable(ready_skills,
                      [i \in 1..Len(ready_skills) |-> <<ready_skills[i].roi_score>>])[1].skill

PrioInit ==
    /\ skill_prerequisites \in PrerequisiteTables
    /\ time_constraint \in {None, Some(0), Some(6), Some(10)}
    /\ simulations \in { SimulationsFor(ms, roi) :
                            ms \in MissingSkillLists, roi \in RoiTables }
    /\ remaining_skills = <<>>
    /\ prioritized = <<>>
    /\ prioPc = "filter"
    /\ RankIdle
    /\ GapIdle
    /\ SimIdle
    /\ ScoreIdle
    /\ SrvIdle
    /\ RerunIdle
    /\ GrowIdle
    /\ RecIdle
    /\ PairIdle
    /\ ConcIdle
    /\ UpIdle
    /\ FidIdle
    /\ BatchIdle

\* the lines before the loop: the time filter and the dict remaining_skills
PrioFilter ==
    /\ prioPc = "filter"
    /\ remaining_skills' = DictOfSims(FilteredSims(simulations, time_constraint))
    /\ prioPc' = "loop"
    /\ UNCHANGED <<skill_prerequisites, time_constraint, simulations, prioritized, notPrio>>

\* one iteration of 'while remaining_skills:'
PrioPick ==
    /\ prioPc = "loop"
    /\ remaining_skills # <<>>
    /\ prioritized' = Append(prioritized, BestSkill(remaining_skills, skill_prerequisites))
    /\ remaining_skills' =
          SelectSeq(remaining_skills,
                    LAMBDA sim : sim.skill # BestSkill(remaining_skills, skill_prerequisites))
    /\ UNCHANGED <<skill_prerequisites, time_constraint, simulations, prioPc, notPrio>>

\* the loop left: return prioritized
PrioReturn ==
    /\ prioPc = "loop"
    /\ remaining_skills = <<>>
    /\ prioPc' = "done"
    /\ UNCHANGED <<skill_prerequisites, time_constraint, simulations, remaining_skills,
                   prioritized, notPrio>>

PrioNext ==
    \/ PrioFilter
    \/ PrioPick
    \/ PrioReturn

PrioSpec == PrioInit /\ [][PrioNext]_vars

\* the call is one thread of control: it takes its next step
PrioLive == PrioSpec /\ WF_vars(PrioNext)

(***************************************************************************)
(* core/nlp_engine.py: NLPEngine.generate_batch_embeddings as a state      *)
(* machine.  The texts, the batch size, the cache flag and the cache the   *)
(* call finds are drawn at the start; each step is one iteration of the    *)
(* loop over the batches, with an encode call that returns or raises.  The *)
(* call is over where bPc is "done" (returned) or "raised".                *)
(***************************************************************************)
MaxTexts == 3        \* longest list of texts, and largest batch size

\* the entries of one batch: texts[i:i + batch_size] with i counted from 0
BatchSlice(texts, i, batch_size) ==
    SubSeq(texts, i + 1, Min(i + batch_size, Len(texts)))

\* the loop over batch_texts: the cached embedding, or the placeholder
\* None, for each text of the batch
LookupAll(batch_texts, use_cache, cache) ==
    [j \in 1..Len(batch_texts) |->
        IF use_cache /\ CacheGet(cache, preprocess_text(batch_texts[j])) # {}
        THEN Some((CHOOSE e \in CacheGet(cache, preprocess_text(batch_texts[j])) : TRUE)[2])
        ELSE None]

\* uncached_indices: the places of the placeholders
UncachedIndices(batch_embeddings) ==
    SelectSeq([j \in 1..Len(batch_embeddings) |-> j],
              LAMBDA j : batch_embeddings[j] = None)

\* uncached_texts: the processed texts of the placeholders
UncachedTexts(batch_texts, batch_embeddings) ==
    [n \in 1..Len(UncachedIndices(batch_embeddings)) |->
        preprocess_text(batch_texts[UncachedIndices(batch_embeddings)[n]])]

\* a store under the text of the first placeholder
StoredText_first(uncached_texts, uncached_indices, idx) ==
    uncached_texts[1]

\* uncached_texts[uncached_indices.index(idx)]
StoredText(uncached_texts, uncached_indices, idx) ==
    uncached_texts[IndexOf(uncached_indices, idx)]

\* the loop over zip(uncached_indices, new_embeddings) from its n-th pair
\* on: self.cache.store_embedding for each pair
RECURSIVE StoreNew(_, _, _, _, _)
StoreNew(cache, uncached_texts, uncached_indices, new_embeddings, n) ==
    IF n > Len(uncached_indices) THEN cache
    ELSE StoreNew(CacheStore(cache,
                             StoredText(uncached_texts, uncached_indices,
                                        uncached_indices[n]),
                             new_embeddings[n]),
                  uncached_texts, uncached_indices, new_embeddings, n + 1)

\* one batch whose encode call returns: the placeholders filled with the
\* new embeddings, and the cache afterwards
BatchEncoded(batch_texts, use_cache, cache) ==
    LET batch_embeddings == LookupAll(batch_texts, use_cache, cache)
        uncached_indices == UncachedIndices(batch_embeddings)
        uncached_texts == UncachedTexts(batch_texts, batch_embeddings)
        new_embeddings == [n \in 1..Len(uncached_texts) |-> encode(uncached_texts[n])]
    IN [batch_embeddings |->
            [j \in 1..Len(batch_texts) |->
                IF batch_embeddings[j] = None
                THEN new_embeddings[IndexOf(uncached_indices, j)]
                ELSE ValueOf(batch_embeddings[j])],
        cache |-> IF use_cache
                  THEN StoreNew(cache, uncached_texts, uncached_indices, new_embeddings, 1)
                  ELSE cache]

\* one batch whose encode call raises: np.zeros(dim) for each placeholder
BatchZeros(batch_texts, use_cache, cache) ==
    LET batch_embeddings == LookupAll(batch_texts, use_cache, cache)
    IN [j \in 1..Len(batch_texts) |->
           IF batch_embeddings[j] = None THEN ZeroVector
           ELSE ValueOf(batch_embeddings[j])]

BatchTextPool == {tAB, tAWideB, tBA, tEmpty}

\* caches an earlier call of the process can have left
BatchCaches ==
    { {},
      { <<tAB, encode(tAB)>> },
      { <<tBA, encode(tBA)>>, <<tEmpty, encode(tEmpty)>> } }

BatchInit ==
    /\ bTexts \in UNION { [1..n -> BatchTextPool] : n \in 0..MaxTexts }
    /\ bBatchSize \in -1..MaxTexts
    /\ bUseCache \in BOOLEAN
    /\ bCacheAtCall \in BatchCaches
    /\ bCache = bCacheAtCall
    /\ bEmbeddings = <<>>
    /\ bI = 0
    /\ bFailed = {}
    /\ bPc = "loop"
    /\ RankIdle
    /\ GapIdle
    /\ SimIdle
    /\ ScoreIdle
    /\ SrvIdle
    /\ RerunIdle
    /\ GrowIdle
    /\ RecIdle
    /\ PairIdle
    /\ ConcIdle
    /\ UpIdle
    /\ FidIdle
    /\ PrioIdle

\* one iteration of the loop over the batches, encode returning (or not
\* called, where every text of the batch is in the cache)
BatchStep ==
    /\ bPc = "loop"
    /\ bBatchSize > 0
    /\ bI < Len(bTexts)
    /\ bEmbeddings' = bEmbeddings
            \o BatchEncoded(BatchSlice(bTexts, bI, bBatchSize), bUseCache, bCache).batch_embeddings
    /\ bCache' = BatchEncoded(BatchSlice(bTexts, bI, bBatchSize), bUseCache, bCache).cache
    /\ bI' = bI + bBatchSize
    /\ UNCHANGED <<bTexts, bBatchSize, bUseCache, bCacheAtCall, bFailed, bPc, notBatch>>

\* one iteration of the loop whose encode call raises
BatchStepRaises ==
    /\ bPc = "loop"
    /\ bBatchSize > 0
    /\ bI < Len(bTexts)
    /\ UncachedIndices(LookupAll(BatchSlice(bTexts, bI, bBatchSize), bUseCache, bCache)) # <<>>
    /\ bEmbeddings' = bEmbeddings
            \o BatchZeros(BatchSlice(bTexts, bI, bBatchSize), bUseCache, bCache)
    /\ bFailed' = bFailed \cup {bI}
    /\ bI' = bI + bBatchSize
    /\ UNCHANGED <<bTexts, bBatchSize, bUseCache, bCacheAtCall, bCache, bPc, notBatch>>

\* range(0, len(texts), batch_size) with batch_size = 0: ValueError, after
\* 'if not texts: return np.array([])'
BatchRangeRaises ==
    /\ bPc = "loop"
    /\ bTexts # <<>>
    /\ bBatchSize = 0
    /\ bPc' = "raised"
    /\ UNCHANGED <<bTexts, bBatchSize, bUseCache, bCacheAtCall, bCache, bEmbeddings,
                   bI, bFailed, notBatch>>

\* return np.array(embeddings): for no texts, after the last batch, and at
\* once where batch_size is negative and the range is empty
BatchReturn ==
    /\ bPc = "loop"
    /\ \/ bTexts = <<>>
       \/ bBatchSize < 0
       \/ bBatchSize > 0 /\ bI >= Len(bTexts)
    /\ bPc' = "done"
    /\ UNCHANGED <<bTexts, bBatchSize, bUseCache, bCacheAtCall, bCache, bEmbeddings,
                   bI, bFailed, notBatch>>

BatchNext ==
    \/ BatchStep
    \/ BatchStepRaises
    \/ BatchRangeRaises
    \/ BatchReturn

BatchSpec == BatchInit /\ [][BatchNext]_vars

(***************************************************************************)
(* Properties of the ranker.                                               *)
(***************************************************************************)
SortedDescBy(keys) ==
    \A i \in 1..(Len(keys) - 1) : ~KeyGreater(keys[i + 1], keys[i])

\* required-skill match percentage of a posting for the candidate, in
\* tenths of a percent, as match_jobs_realtime computes it
RequiredPercentage(job) ==
    calculate_exact_match_percentage(cand, job.required_skills).match_percentage

TiesInCatalogOrder ==
    \A i, j \in 1..Len(matches) :
        (i < j /\ matches[i].fit_score = matches[j].fit_score)
            => CatalogIndex(catalog, matches[i].company)
                  < CatalogIndex(catalog, matches[j].company)

Count(x, lst) == Cardinality({ i \in 1..Len(lst) : lst[i] = x })

\* C4: for every pair (resume, job), every skill of the flattened skill
\* list extracted from the job text appears exactly once in the union of
\* the matched and the missing list of the gap analysis: in matched or in
\* missing, never in both, never in neither, and never twice.
C4_EachJobSkillExactlyOnce ==
    gapImpl # "none" =>
        \A sk \in Range(gapOut.job_skills) :
            Count(sk, gapOut.matched_skills) + Count(sk, gapOut.missing_skills) = 1

(***************************************************************************)
(* Properties of the similarity providers.                                 *)
(***************************************************************************)
\* equality of two fractions
RatEq(x, y) == x[1] * y[2] = y[1] * x[2]

\* C6: similarity is symmetric: for all texts a and b, similarity(a, b)
\* equals similarity(b, a), in the lexical implementations as well as in
\* the embedding ones.
C6_SimilaritySymmetric ==
    simImpl # "none" => RatEq(simOut.ab, simOut.ba)

\* C7: similarity returns exactly 0 whenever either of the two input texts
\* is empty, whichever implementation (lexical or embedding) is in use.
C7_ZeroWhenEitherEmpty ==
    (simImpl # "none" /\ (simA = <<>> \/ simB = <<>>)) => simOut.ab[1] = 0

\* the values the repository's lexical similarities give two texts: the
\* token overlap of final_backend and working_backend, the Jaccard index of
\* clean_backend
LexicalValues(a, b) ==
    { FinalOverlap(SplitWords(a), SplitWords(b)),
      WorkingOverlap(SplitWords(a), SplitWords(b)),
      calculate_similarity_simple(a, b) }

\* C8: when the embedding backend is missing or raises, similarity returns
\* the value the lexical fallback computes for the same two texts, not a
\* fixed constant and not the similarity of zero vectors (no script lets
\* the exception reach the caller; the model has no such outcome).
C8_LexicalFallbackOnFailure ==
    (simImpl \in {"final_backend", "backend_final", "nlp_engine"}
       /\ simBackend # "ok")
    => \E l \in LexicalValues(simA, simB) : RatEq(simOut.ab, l)

C10_ProbabilityIn15To95 ==
    scoreImpl \in {"final_backend", "backend_final", "fixed_enhanced"} =>
        150 <= scoreOut.selection_probability
        /\ scoreOut.selection_probability <= 950

\* C10 as the scripts have it: the selection probability is at most 95 in
\* every scorer; it is at least 15 in final_backend (range [15, 88]) and in
\* backend_final (range [15, 90]) for every value of the jitter, and at
\* least 0 in fixed_enhanced_backend, which has no floor and no jitter.
C10_ProbabilityRangeByScorer ==
    /\ scoreImpl = "final_backend" =>
          150 <= scoreOut.selection_probability
          /\ scoreOut.selection_probability <= 880
    /\ scoreImpl = "backend_final" =>
          150 <= scoreOut.selection_probability
          /\ scoreOut.selection_probability <= 900
    /\ scoreImpl = "fixed_enhanced" =>
          0 <= scoreOut.selection_probability
          /\ scoreOut.selection_probability <= 950

\* final_backend has scored with a jitter that takes the probability below
\* the floor, and the floor has acted
C10_Witness ==
    /\ scoreImpl = "final_backend"
    /\ scoreOut.fit_score = 250
    /\ scoreOut.selection_probability = 150

\* C5: no state is shared between clients -- the analysis a client receives
\* is an analysis of the resume that client uploaded (a refusal while it
\* has uploaded none), as if the other client had issued no request.
C5_AnswerFromOwnResume ==
    srvReq # None =>
        ValueOf(srvResp) \in
            { Answer(srvScript, srvModel, srvOwn[ValueOf(srvReq).client],
                     ValueOf(srvReq).job, jitter) : jitter \in JitterOf(srvScript) }

\* C11: scoring is deterministic -- two evaluations with identical resume
\* text, job text and resume skills return the identical fit score and the
\* identical selection probability.
C11_SameScoresOnRerun ==
    scoreAgain # <<>> =>
        /\ scoreAgain.fit_score = scoreOut.fit_score
        /\ scoreAgain.selection_probability = scoreOut.selection_probability

(***************************************************************************)
(* Properties of skill extraction.                                         *)
(***************************************************************************)
\* C12: extraction matches case-insensitively and only at word boundaries:
\* a skill is reported for a text only if its name occurs in the text as a
\* whole boundary-delimited word, never when it occurs only inside a
\* longer word ("Go" inside "Google").
C12_ReportedOnlyAtWordBoundaries ==
    gapImpl \in {"skill_analyzer", "final_backend", "fixed_enhanced"} =>
        /\ \A sk \in Range(gapOut.job_skills) :
              SearchWord(lower(sk), lower(gapJob))
        /\ gapImpl # "skill_analyzer" =>
              \A sk \in Range(gapOut.resume_skills) :
                  SearchWord(lower(sk), lower(gapResume))

\* C13: the flattened skill list extraction returns contains no skill
\* twice, even when the catalog lists the skill under more than one
\* category or subcategory.
C13_FlatListHasNoDuplicates ==
    gapImpl \in {"skill_analyzer", "fixed_enhanced"} =>
        /\ \A sk \in Range(gapOut.job_skills) : Count(sk, gapOut.job_skills) = 1
        /\ gapImpl = "fixed_enhanced" =>
              \A sk \in Range(gapOut.resume_skills) :
                  Count(sk, gapOut.resume_skills) = 1

(***************************************************************************)
(* Properties of the gap analysis.                                         *)
(***************************************************************************)
\* C14: whenever the job text yields no skills (matched and missing are
\* both empty, the weight denominator is 0), in particular when both texts
\* are empty, the gap analysis reports a match ratio of exactly 0.
C14_RatioZeroWithoutJobSkills ==
    (gapImpl # "none" /\ gapOut.job_skills = <<>>) =>
        /\ gapOut.matched_skills = <<>>
        /\ gapOut.missing_skills = <<>>
        /\ gapOut.score[1] = 0

\* x <= y for fractions with positive denominators
RatLe(x, y) ==
    IF x[2] = y[2] THEN x[1] <= y[1] ELSE x[1] * y[2] <= y[1] * x[2]

\* C15: for a fixed job text, the match ratio of the gap analysis never
\* decreases when one more of the job's required skills is added verbatim
\* to the resume text.
C15_RatioMonotoneInResume ==
    gapAdded > 0 => RatLe(gapBefore, gapOut.score)

\* a missing skill has been added and the ratio has risen
C15_Witness ==
    /\ gapAdded > 0
    /\ ~RatLe(gapOut.score, gapBefore)

(***************************************************************************)
(* Properties of the recommenders.                                         *)
(***************************************************************************)
\* the most recommendations a script returns
CourseLimit(impl) ==
    IF impl = "final_backend" THEN FinalCourseLimit ELSE CleanCourseLimit

\* C16: the recommender returns at most N course recommendations, N its
\* limit, and no two of them are for the same skill, also when more than N
\* skills are missing.
C16_AtMostLimitAndNoSkillTwice ==
    recImpl # "none" =>
        /\ Len(recOut) <= CourseLimit(recImpl)
        /\ \A i, j \in 1..Len(recOut) :
              i # j => recOut[i].skill # recOut[j].skill

(***************************************************************************)
(* Further properties of the ranker.                                       *)
(***************************************************************************)
\* the candidate holds every skill of the list, compared as
\* calculate_exact_match_percentage compares (lower case, stripped)
HoldsAll(resume_skills, skills) ==
    \A k \in 1..Len(skills) :
        InList(strip(lower(skills[k])), LowerStripAll(resume_skills))

C18_FullBeatsOneMissing ==
    (pairImpl # "none" /\ pairOut.less # <<>>) =>
        /\ pairOut.full # <<>>
        /\ pairOut.full[1].selection_probability
              > pairOut.less[1].selection_probability

\* fit scores are kept in tenths of a percent where the code rounds them to
\* one decimal, in whole percents where it truncates them to an int
FitScale(r) == IF r \in {"realtime", "clean"} THEN 10 ELSE 1

FitCap == 98

\* C19: every match returned by a ranking has a fit score within [0, 98],
\* including for a candidate who matches all required and all preferred
\* skills.
C19_FitWithin0To98 ==
    \A i \in 1..Len(matches) :
        /\ matches[i].fit_score >= 0
        /\ matches[i].fit_score <= FitCap * FitScale(ranker)

\* C20: for any interleaving of concurrent similarity computations the
\* embedding cache maps each text key to at most one value, every entry
\* written under a key is the embedding of that same text, and a lookup
\* never returns an embedding computed for a different text; duplicate
\* computations leave the same entry.
C20_CacheHoldsOwnEmbeddings ==
    /\ \A e1, e2 \in embCache : e1[1] = e2[1] => e1 = e2
    /\ \A e \in embCache : e[2] = encode(e[1])
    /\ \A d \in embDisk : \A e \in d : e[2] = encode(e[1])
    /\ \A t \in DOMAIN thread : \A h \in thread[t].hits : h[2] = encode(h[1])

\* two threads have computed and written the same key, and one of them has
\* later been answered from the cache for it
C20_Witness ==
    \E t, u \in DOMAIN thread :
        /\ t # u
        /\ \E key \in thread[t].writes \cap thread[u].writes :
              \E h \in thread[t].hits : h[1] = key

\* a text that is empty or holds white space only
IsBlank(text) == strip(text) = <<>>

\* C21: skill extraction on the empty string or on a whitespace-only string
\* returns an empty result: no categories and an empty flat list.
C21_BlankTextExtractsNothing ==
    gapImpl # "none" =>
        /\ IsBlank(gapJob) =>
              /\ gapOut.job_skills = <<>>
              /\ sa_extract_skills_from_text(gapJob) = <<>>
              /\ categorized_skills(gapJob) = <<>>
              /\ extract_skills_enhanced(gapJob) = <<>>
              /\ extract_skills(gapJob) = {}
        /\ IsBlank(gapResume) =>
              /\ gapImpl # "skill_analyzer" => gapOut.resume_skills = <<>>
              /\ sa_extract_skills_from_text(gapResume) = <<>>
              /\ categorized_skills(gapResume) = <<>>

\* a whitespace-only job text and an empty resume text have been analysed
C21_Witness ==
    /\ gapImpl # "none"
    /\ gapJob # <<>>
    /\ IsBlank(gapJob)
    /\ gapResume = <<>>

\* str.upper() of a skill, and of every skill of a list
upper(str) == [i \in 1..Len(str) |-> UpperChar(str[i])]
UpperAll(skills) == [i \in 1..Len(skills) |-> upper(skills[i])]

\* what a ranking decides for the postings: which are returned (the eligible
\* ones), in which order, with which fit score
CaseView(ms) == [i \in 1..Len(ms) |-> <<ms[i].company, ms[i].fit_score>>]

\* the candidate's skill list in another letter case
Recased(skills) == {LowerAll(skills), UpperAll(skills)}

\* C22: the ranker matches required and preferred skills
\* case-insensitively: changing only the letter case of the candidate's
\* skills changes no posting's match counts, fit score or eligibility.
C22_CaseInsensitiveMatching ==
    /\ ranker = "realtime" =>
          \A c2 \in Recased(cand) :
              CaseView(match_jobs_realtime(c2, catalog)) = CaseView(matches)
    /\ ranker = "backend_final" =>
          \A c2 \in Recased(cand) :
              CaseView(backend_final_get_company_job_matches(c2, catalog)) = CaseView(matches)
    /\ ranker = "main" =>
          \A c2 \in Recased(cand) :
              CaseView(main_get_company_job_matches(c2, catalog)) = CaseView(matches)
    /\ ranker = "final" =>
          \A c2 \in Recased(cand) :
              CaseView(get_job_matches(c2, catalog)) = CaseView(matches)
    /\ ranker = "clean" =>
          CaseView(match_jobs(lower(resumeText), catalog)) = CaseView(matches)

\* the similarity was computed from the words of the texts
LexicalRun ==
    \/ simImpl = "clean_backend"
    \/ simImpl = "final_backend" /\ simBackend = "missing"

\* C23: under the lexical implementation similarity(a, a) equals exactly 1
\* for every non-empty text a, including a text without word characters.
C23_LexicalSelfSimilarityIsOne ==
    (LexicalRun /\ simA = simB /\ simA # <<>>) =>
        simOut.ab[1] = simOut.ab[2]

\* C24: while no upload has succeeded, an analysis or matching request is
\* rejected with a client error (400, or 404 where resumes are kept by file
\* id), never answered with a score and never with a 500, and the
\* rejection leaves the stored state as it was.
C24_RejectedBeforeUpload ==
    (resume_data = None /\ srvReq # None) =>
        ValueOf(srvResp).status \in {400, 404}

\* the library extracted no text from the file: empty or white space only
NoTextExtracted(file) ==
    /\ file.filename # <<>>
    /\ EndsWith(lower(file.filename), xPdf) \/ EndsWith(lower(file.filename), xDocx)
    /\ strip(file.text) = <<>>

\* C25: an upload from which no text can be extracted is answered with
\* status 400, distinguishable from a server-side 500, and stores no
\* resume.
C25_NoTextIs400 ==
    (upFile # None /\ NoTextExtracted(ValueOf(upFile))) =>
        /\ upResp = 400
        /\ <<uploaded_resume_text, uploaded_resume_data>> = upBefore

\* what the handler stores for a file on a process that holds no resume
StoredFor(script, file) == upload_resume(script, file, <<>>, None)

\* C26: after any sequence of upload attempts the stored resume text, name
\* and skill list all come from the same, most recent successful upload; an
\* upload that fails changes none of them.
C26_StoredResumeIsLastSuccess ==
    /\ upLast = None =>
          /\ uploaded_resume_data = None
          /\ uploaded_resume_text = <<>>
    /\ upLast # None =>
          /\ uploaded_resume_data = StoredFor(upScript, ValueOf(upLast)).data
          /\ uploaded_resume_text = StoredFor(upScript, ValueOf(upLast)).text
    /\ upResp \notin {0, 200} =>
          <<uploaded_resume_text, uploaded_resume_data>> = upBefore

\* an upload has failed on a process that holds the resume of an earlier
\* upload
C26_Witness ==
    /\ upResp \in {400, 500}
    /\ upLast # None
    /\ upFile # upLast
    /\ uploaded_resume_data # None

\* the entry an upload of the text under a fresh id leaves in uploaded_files
IssuedEntry(script, text) ==
    [extracted_text |-> text,
     skills |-> IF script = "fixed_enhanced"
                THEN Some(extract_skills_enhanced(text)) ELSE None]

\* C27: in the file-id variants, once an upload has returned file id f,
\* every later analyze or match request for f succeeds against exactly the
\* text uploaded under f, however many other uploads and requests are
\* interleaved; an entry is never removed or overwritten by another upload.
C27_FileIdKeepsItsText ==
    /\ \A f \in DOMAIN fidIssued :
          /\ f \in DOMAIN uploaded_files
          /\ uploaded_files[f].extracted_text = fidIssued[f]
          /\ uploaded_files[f].skills = IssuedEntry(fidScript, fidIssued[f]).skills
    /\ (fidReq # None /\ ValueOf(fidReq).op = "analyze"
            /\ ValueOf(fidReq).file_id \in DOMAIN fidIssued) =>
          fidResp = Some(fid_analyze_resume(fidScript, 1,
                            ValueOf(fidReq).job_description,
                            <<IssuedEntry(fidScript, fidIssued[ValueOf(fidReq).file_id])>>))
    /\ (fidReq # None /\ ValueOf(fidReq).op = "match"
            /\ ValueOf(fidReq).file_id \in DOMAIN fidIssued) =>
          fidResp = Some(fid_match_jobs(fidScript, 1,
                            <<IssuedEntry(fidScript, fidIssued[ValueOf(fidReq).file_id])>>))

\* an analysis of the first upload, answered after the uploads of other
\* texts that fill the store
C27_Witness ==
    /\ fidReq # None
    /\ ValueOf(fidReq).op \in {"analyze", "match"}
    /\ ValueOf(fidReq).file_id = 1
    /\ Cardinality(DOMAIN fidIssued) = MaxFiles
    /\ fidIssued[2] # fidIssued[1]
    /\ ValueOf(fidResp).status = 200

\* the skills of the simulations whose time fits the constraint given
FitsConstraint ==
    { simulations[i].skill : i \in
        { k \in 1..Len(simulations) :
            time_constraint # None =>
                weeks_needed(simulations[k]) <= ValueOf(time_constraint) } }

\* C28: skill prioritisation terminates for every input, prerequisite
\* tables with a cycle included, and returns each skill that passes the
\* time-constraint filter exactly once: a permutation of the retained
\* skills.
C28_PermutationOfRetained ==
    prioPc = "done" =>
        /\ Range(prioritized) = FitsConstraint
        /\ Len(prioritized) = Cardinality(Range(prioritized))

\* the termination half of C28, under PrioLive: the call returns
C28_Terminates == <>(prioPc = "done")

\* A is a prerequisite of B in the table
IsPrerequisite(A, B) == A \in Range(GetList(skill_prerequisites, B))

\* the prerequisites among the skills of S contain a cycle: some skills of
\* S each have a prerequisite among themselves
HasCycle(S) ==
    \E T \in SUBSET S :
        /\ T # {}
        /\ \A B \in T : \E A \in T : IsPrerequisite(A, B)

\* roi_score of the simulation of a skill
RoiOf(skill) ==
    (CHOOSE sim \in Range(simulations) : sim.skill = skill).roi_score

\* the skills that remained when the k-th skill of prioritized was picked
RemainingAt(k) ==
    (Range(prioritized) \cup Keys(remaining_skills))
        \ {prioritized[j] : j \in 1..(k - 1)}

\* C29: in the prioritised list, whenever skill A is a prerequisite of
\* skill B, both are in the output and the prerequisites among the output
\* skills contain no cycle, A appears before B; among the skills whose
\* prerequisites are all met, the one with the highest ROI score is emitted
\* first.
C29_PrerequisitesFirstThenRoi ==
    /\ (prioPc = "done" /\ ~HasCycle(Range(prioritized))) =>
          \A A, B \in Range(prioritized) :
              IsPrerequisite(A, B) =>
                  IndexOf(prioritized, A) < IndexOf(prioritized, B)
    /\ \A k \in 1..Len(prioritized) :
          \A s \in RemainingAt(k) :
              (\A dep \in Range(GetList(skill_prerequisites, s)) : dep \notin RemainingAt(k))
                  => RoiOf(s) <= RoiOf(prioritized[k])

\* a list returned where a prerequisite has the lower ROI score and the
\* skill that requires it a higher one than a third skill
C29_Witness ==
    /\ prioPc = "done"
    /\ ~HasCycle(Range(prioritized))
    /\ Len(prioritized) = 3
    /\ \E A, B \in Range(prioritized) :
          /\ IsPrerequisite(A, B)
          /\ RoiOf(A) < RoiOf(B)

\* the value of i of the batch that holds the k-th text
BatchOf(k) == ((k - 1) \div bBatchSize) * bBatchSize

\* one embedding per text in input order, the cached one for a text the
\* cache held at the call, else the encoded one (zeros where encode raised);
\* the cache keeps its entries and each new entry is the encoding of a text
\* of the call under that text's key
BatchResult ==
    /\ Len(bEmbeddings) = Len(bTexts)
    /\ \A k \in 1..Len(bTexts) :
          LET key == preprocess_text(bTexts[k])
          IN IF bUseCache /\ CacheGet(bCacheAtCall, key) # {}
             THEN bEmbeddings[k] = (CHOOSE e \in CacheGet(bCacheAtCall, key) : TRUE)[2]
             ELSE \/ bEmbeddings[k] = encode(key)
                  \/ BatchOf(k) \in bFailed /\ bEmbeddings[k] = ZeroVector
    /\ bCacheAtCall \subseteq bCache
    /\ \A e \in bCache \ bCacheAtCall :
          /\ bUseCache
          /\ e[2] = encode(e[1])
          /\ \E k \in 1..Len(bTexts) : preprocess_text(bTexts[k]) = e[1]
    /\ bUseCache =>
          \A k \in 1..Len(bTexts) :
              BatchOf(k) \notin bFailed =>
                  CacheGet(bCache, preprocess_text(bTexts[k])) =
                      { <<preprocess_text(bTexts[k]), encode(preprocess_text(bTexts[k]))>> }

\* C30 as stated: batch embedding returns exactly one embedding per input
\* text, in input order, for any mix of cached and uncached texts and any
\* batch size, and each newly computed embedding is stored in the cache
\* under the key of the text it was computed from.
C30_AnyBatchSize ==
    bPc \in {"done", "raised"} => (bPc = "done" /\ BatchResult)

\* C30 as the code has it: for any mix of cached and uncached texts and any
\* batch size of at least 1, batch embedding returns exactly one embedding
\* per input text, in input order, and each newly computed embedding is
\* stored in the cache under the key of the text it was computed from.
C30_OneEmbeddingPerTextInOrder ==
    (bPc \in {"done", "raised"} /\ bBatchSize >= 1) => (bPc = "done" /\ BatchResult)

\* a call returned whose first batch held a cached text and two uncached
\* texts with different keys, both stored
C30_Witness ==
    /\ bPc = "done"
    /\ bUseCache
    /\ bFailed = {}
    /\ Len(bTexts) = 3
    /\ bBatchSize = 3
    /\ CacheGet(bCacheAtCall, preprocess_text(bTexts[1])) # {}
    /\ Cardinality(bCache \ bCacheAtCall) = 2

====
